---- MODULE Spec2Model ----
(***************************************************************************)
(* A model of scripts/python/converter_core.py: the spreadsheet grid built *)
(* by ExcelSheetData (merge index, resolved cell values), the row           *)
(* classifier HtmlConverter._classify_row, the block accumulation pass     *)
(* HtmlConverter.convert and the table reconstruction                      *)
(* HtmlConverter._create_table_element.                                    *)
(*                                                                         *)
(* Text is modelled as a sequence of one-character strings, so that        *)
(* strip(), lower(), upper(), split(), len() and the substring tests of    *)
(* the classifier are computed and not assumed.  A coordinate "B3" is the  *)
(* pair <<row, column>> = <<3, 2>> (get_column_letter is a bijection).     *)
(***************************************************************************)
EXTENDS Integers, Sequences, FiniteSets, TLC

VARIABLES
    sheet,                \* the openpyxl worksheet handed to ExcelSheetData
    merged_cells_map,     \* ExcelSheetData.merged_cells_map
    rows,                 \* ExcelSheetData.rows
    images,               \* ExcelSheetData.images
    pc,                   \* position of the run: "raw", "parsed", "loop", "done"
    row_ptr,              \* index of the next row the loop of convert visits
    current_table_rows,   \* local of convert
    current_paragraph_lines, \* local of convert
    last_classification,  \* local of convert
    title_image_tag,      \* local of convert
    images_used,          \* HtmlConverter.images_used
    content_elements,     \* HtmlConverter.content_elements
    tags,                 \* history: the classification of each visited row
    call,                 \* arguments of one isolated _classify_row call
    ret,                  \* its result
    output_file,          \* the file at args.output_path
    job_updates,          \* the calls of update_job_status_db, in order
    conversion_jobs       \* the table conversion_jobs of the database

vars == <<sheet, merged_cells_map, rows, images, pc, row_ptr,
          current_table_rows, current_paragraph_lines, last_classification,
          title_image_tag, images_used, content_elements, tags, call, ret,
          output_file, job_updates, conversion_jobs>>

\* Python's None.
None == "None"

\* None as a cell value (a value of the same kind as a text).
NoValue == <<"None">>

Max(a, b) == IF a >= b THEN a ELSE b

Min(a, b) == IF a <= b THEN a ELSE b

(***************************************************************************)
(* Text primitives (str methods used by the converter).                    *)
(***************************************************************************)
LowerLetters ==
    <<"a", "b", "c", "d", "e", "f", "g", "h", "i", "j", "k", "l", "m",
      "n", "o", "p", "q", "r", "s", "t", "u", "v", "w", "x", "y", "z">>

UpperLetters ==
    <<"A", "B", "C", "D", "E", "F", "G", "H", "I", "J", "K", "L", "M",
      "N", "O", "P", "Q", "R", "S", "T", "U", "V", "W", "X", "Y", "Z">>

Digits == {"0", "1", "2", "3", "4", "5", "6", "7", "8", "9"}

\* The whitespace characters str.strip(), str.split() and \s act on.
Whitespace == {" ", "\n", "\t", "\r"}

LetterIndex(letters, ch) ==
    IF \E i \in 1..Len(letters) : letters[i] = ch
    THEN CHOOSE i \in 1..Len(letters) : letters[i] = ch
    ELSE 0

\* One character of str.lower().
LowerChar(ch) ==
    LET i == LetterIndex(UpperLetters, ch)
    IN  IF i = 0 THEN ch ELSE LowerLetters[i]

\* One character of str.upper().
UpperChar(ch) ==
    LET i == LetterIndex(LowerLetters, ch)
    IN  IF i = 0 THEN ch ELSE UpperLetters[i]

\* str.lower()
Lower(s) == [i \in 1..Len(s) |-> LowerChar(s[i])]

\* str.upper()
Upper(s) == [i \in 1..Len(s) |-> UpperChar(s[i])]

\* str.strip(): leading and trailing whitespace removed.
Strip(s) ==
    LET keep == {i \in 1..Len(s) : s[i] \notin Whitespace}
    IN  IF keep = {} THEN <<>>
        ELSE LET lo == CHOOSE i \in keep : \A j \in keep : i <= j
                 hi == CHOOSE i \in keep : \A j \in keep : i >= j
             IN  SubSeq(s, lo, hi)

\* `k in s` for two strings.
Contains(s, k) ==
    \E i \in 1..(Len(s) - Len(k) + 1) : SubSeq(s, i, i + Len(k) - 1) = k

\* any(k in s for k in keywords)
ContainsAny(s, keywords) ==
    \E n \in 1..Len(keywords) : Contains(s, keywords[n])

\* len(s.split()): the number of maximal runs of non-whitespace characters.
WordCount(s) ==
    Cardinality({i \in 1..Len(s) :
                    /\ s[i] \notin Whitespace
                    /\ (i = 1 \/ s[i - 1] \in Whitespace)})

\* s.split('\n'): the lines of s (at least one, possibly empty).
RECURSIVE SplitLines(_)
SplitLines(s) ==
    IF \E i \in 1..Len(s) : s[i] = "\n"
    THEN LET p == CHOOSE i \in 1..Len(s) :
                     s[i] = "\n" /\ \A j \in 1..(i - 1) : s[j] # "\n"
         IN  <<SubSeq(s, 1, p - 1)>> \o SplitLines(SubSeq(s, p + 1, Len(s)))
    ELSE <<s>>

\* sep.join(parts)
RECURSIVE Join(_, _)
Join(sep, parts) ==
    IF Len(parts) = 0 THEN <<>>
    ELSE IF Len(parts) = 1 THEN parts[1]
    ELSE parts[1] \o sep \o Join(sep, Tail(parts))

\* First index >= i of s whose character is not in `set` (Len(s) + 1 if none).
SkipWhile(s, i, set) ==
    LET stop == {j \in i..Len(s) : s[j] \notin set}
    IN  IF stop = {} THEN Max(i, Len(s) + 1)
        ELSE CHOOSE j \in stop : \A k \in stop : j <= k

(***************************************************************************)
(* re.search(r'\d+(\.\d+)?\s*/\s*\d+(\.\d+)?\s*k?v', s, re.IGNORECASE).    *)
(* A match is anchored on a "/": left of it a digit followed by whitespace *)
(* only (the shortest left part \d), right of it whitespace, a maximal run *)
(* of digits, an optional ".digits", whitespace, an optional k and a v.    *)
(***************************************************************************)
VoltageTail(s, i) ==
    LET a == SkipWhile(s, i, Whitespace)
        b == SkipWhile(s, a, Digits)
        c == IF /\ b + 1 <= Len(s)
                /\ s[b] = "."
                /\ s[b + 1] \in Digits
             THEN SkipWhile(s, b + 1, Digits)
             ELSE b
        d == SkipWhile(s, c, Whitespace)
        e == IF d <= Len(s) /\ LowerChar(s[d]) = "k" THEN d + 1 ELSE d
    IN  /\ b > a
        /\ e <= Len(s)
        /\ LowerChar(s[e]) = "v"

VoltageSearch(s) ==
    \E p \in 1..Len(s) :
        /\ s[p] = "/"
        /\ \E q \in 1..(p - 1) :
              /\ s[q] \in Digits
              /\ \A j \in (q + 1)..(p - 1) : s[j] \in Whitespace
        /\ VoltageTail(s, p + 1)

(***************************************************************************)
(* Keyword lists of HtmlConverter.                                         *)
(***************************************************************************)
\* HtmlConverter.SECTION_HEADERS (converter_core.py:241-245).
SECTION_HEADERS ==
    << <<"A", "P", "P", "L", "I", "C", "A", "T", "I", "O", "N">>,
       <<"S", "T", "A", "N", "D", "A", "R", "D", "S">>,
       <<"C", "H", "A", "R", "A", "C", "T", "E", "R", "I", "S", "T", "I", "C", "S">>,
       <<"C", "O", "N", "S", "T", "R", "U", "C", "T", "I", "O", "N">>,
       <<"D", "I", "M", "E", "N", "S", "I", "O", "N", "S">>,
       <<"E", "L", "E", "C", "T", "R", "I", "C", "A", "L", " ", "C", "H", "A", "R", "A", "C", "T", "E", "R", "I", "S", "T", "I", "C", "S">>,
       <<"C", "O", "N", "D", "U", "C", "T", "O", "R", "S">>,
       <<"D", "E", "-", "R", "A", "T", "I", "N", "G">>,
       <<"C", "U", "R", "R", "E", "N", "T", " ", "C", "A", "R", "R", "Y", "I", "N", "G">>,
       <<"V", "O", "L", "T", "A", "G", "E", " ", "D", "R", "O", "P">>,
       <<"F", "A", "C", "T", "O", "R", "S">>,
       <<"F", "E", "A", "T", "U", "R", "E", "S">>,
       <<"T", "E", "C", "H", "N", "I", "C", "A", "L", " ", "D", "A", "T", "A">> >>

\* HtmlConverter.DESCRIPTIVE_KEYWORDS_LOWER (converter_core.py:247).
DESCRIPTIVE_KEYWORDS_LOWER ==
    << <<"f", "o", "r", " ", "u", "s", "e", " ", "i", "n">>,
       <<"a", "c", "c", "o", "r", "d", "i", "n", "g", " ", "t", "o">>,
       <<"c", "o", "n", "d", "u", "c", "t", "o", "r", " ", "o", "p", "e", "r", "a", "t", "e", "s">>,
       <<"n", "o", "t", "e">>,
       <<"w", "h", "e", "r", "e", " ", "a", " ", "c", "o", "n", "d", "u", "c", "t", "o", "r">>,
       <<"f", "i", "x", "e", "d", " ", "w", "i", "r", "i", "n", "g">>,
       <<"p", "o", "w", "e", "r", " ", "n", "e", "t", "w", "o", "r", "k", "s">> >>

\* HtmlConverter.FOOTER_KEYWORDS_LOWER (converter_core.py:248).
FOOTER_KEYWORDS_LOWER ==
    << <<"i", "n", "f", "o", "r", "m", "a", "t", "i", "o", "n", " ", "c", "o", "n", "t", "a", "i", "n", "e", "d">>,
       <<"g", "u", "i", "d", "a", "n", "c", "e", " ", "o", "n", "l", "y">>,
       <<"s", "u", "b", "j", "e", "c", "t", " ", "t", "o", " ", "c", "h", "a", "n", "g", "e">>,
       <<"l", "i", "a", "b", "i", "l", "i", "t", "y">>,
       <<"t", "o", "l", "e", "r", "a", "n", "c", "e", "s">>,
       <<"m", "a", "n", "u", "f", "a", "c", "t", "u", "r", "i", "n", "g", " ", "t", "o", "l", "e", "r", "a", "n", "c", "e", "s">> >>

\* keywords of _is_like_title (converter_core.py:303).
TITLE_KEYWORDS ==
    << <<"c", "a", "b", "l", "e">>,
       <<"c", "o", "n", "d", "u", "c", "t", "o", "r">>,
       <<"w", "i", "r", "e">> >>

BASEC ==
    <<"b", "a", "s", "e", "c">>

(***************************************************************************)
(* The worksheet (input).  sheet.cells[r][c] is the openpyxl cell at row r *)
(* and column c: its own value (None or text) and the style flags the      *)
(* converter reads: bold (font.bold) and border (the truth value of        *)
(* `border and (border.left or border.right or border.top or               *)
(* border.bottom)`).  sheet.ranges is list(sheet.merged_cells.ranges), a   *)
(* sequence of records [min_row, max_row, min_col, max_col].               *)
(***************************************************************************)
RawCell(v, bold, border) == [value |-> v, bold |-> bold, border |-> border]

Range(r1, c1, r2, c2) ==
    [min_row |-> r1, min_col |-> c1, max_row |-> r2, max_col |-> c2]

\* The coordinates a merge range owns.
RangeCoords(rng) ==
    (rng.min_row..rng.max_row) \X (rng.min_col..rng.max_col)

\* top_left_coord of a range.
TopLeft(rng) == <<rng.min_row, rng.min_col>>

\* sheet[coord].value; a coordinate outside the stored cells is a fresh
\* empty cell.
SheetValue(ws, coord) ==
    IF coord[1] \in 1..Len(ws.cells) /\ coord[2] \in 1..Len(ws.cells[coord[1]])
    THEN ws.cells[coord[1]][coord[2]].value
    ELSE NoValue

\* ExcelSheetData._create_merged_cells_map after the first n ranges: a
\* later range overwrites the entries of an earlier one.
RECURSIVE MergedMapUpTo(_, _)
MergedMapUpTo(ranges, n) ==
    IF n = 0 THEN <<>>
    ELSE LET prev == MergedMapUpTo(ranges, n - 1)
             rng == ranges[n]
             own == RangeCoords(rng)
         IN  [coord \in (DOMAIN prev) \cup own |->
                 IF coord \in own THEN <<TopLeft(rng), rng>> ELSE prev[coord]]

\* ExcelSheetData._create_merged_cells_map
CreateMergedCellsMap(ws) == MergedMapUpTo(ws.ranges, Len(ws.ranges))

\* CellData._get_value
GetValue(ws, coord, is_merged, is_top_left_merged, merge_range_info) ==
    IF is_merged /\ ~is_top_left_merged
    THEN SheetValue(ws, merge_range_info[1])
    ELSE SheetValue(ws, coord)

\* CellData.__init__
CellData(ws, coord, merged_map) ==
    LET is_merged == coord \in DOMAIN merged_map
        info == IF is_merged THEN merged_map[coord] ELSE <<>>
        is_top_left == is_merged /\ info[1] = coord
        raw == ws.cells[coord[1]][coord[2]]
    IN  [coordinate |-> coord,
         row |-> coord[1],
         column |-> coord[2],
         is_merged |-> is_merged,
         merge_range_info |-> info,
         is_top_left_merged |-> is_top_left,
         value |-> GetValue(ws, coord, is_merged, is_top_left, info),
         bold |-> raw.bold,
         border |-> raw.border,
         rowspan |-> IF is_top_left
                     THEN info[2].max_row - info[2].min_row + 1 ELSE 1,
         colspan |-> IF is_top_left
                     THEN info[2].max_col - info[2].min_col + 1 ELSE 1]

\* CellData.is_empty
CellIsEmpty(cell) == cell.value = NoValue \/ Strip(cell.value) = <<>>

\* The column limit of ExcelSheetData._parse_sheet (min_column is 1 in
\* every sheet of this model, so a scanned row is max_column cells long).
ParseMaxCol(ws) ==
    LET max_col_scan == ws.max_column
        max_col == Min(max_col_scan, ws.max_column)
    IN  IF max_col = 0 THEN 50
        ELSE IF max_col > 150 THEN 150
        ELSE max_col

\* ExcelSheetData._parse_sheet: one RowData per worksheet row.
ParseSheet(ws, merged_map) ==
    [r \in 1..ws.max_row |->
        [row_idx |-> r,
         cells |-> [c \in 1..ParseMaxCol(ws) |->
                       CellData(ws, <<r, ws.min_column + c - 1>>, merged_map)]]]

\* The cells at the positions `keep`, in their order in the row: the list a
\* loop over the cells builds by appending the ones it keeps.
SelectCells(cells, keep) ==
    LET nth(k) == CHOOSE i \in keep : Cardinality({j \in keep : j < i}) = k - 1
    IN  [k \in 1..Cardinality(keep) |-> cells[nth(k)]]

\* A test that takes no cell for a covered cell of a merge.
IsMergeCoveredNever(cell) == FALSE

\* `cell.is_merged and not cell.is_top_left_merged`
IsMergeCovered(cell) == cell.is_merged /\ ~cell.is_top_left_merged

\* RowData.is_empty
RowIsEmpty(row, ignore_merged_covered) ==
    \A i \in 1..Len(row.cells) :
        \/ (ignore_merged_covered /\ IsMergeCovered(row.cells[i]))
        \/ CellIsEmpty(row.cells[i])

\* RowData.get_non_empty_cells
GetNonEmptyCells(row, ignore_merged_covered) ==
    SelectCells(row.cells,
                {i \in 1..Len(row.cells) :
                    /\ ~(ignore_merged_covered /\ IsMergeCovered(row.cells[i]))
                    /\ ~CellIsEmpty(row.cells[i])})

\* RowData.get_last_data_column_index
GetLastDataColumnIndex(row) ==
    LET ends == {row.cells[i].column
                   + (IF row.cells[i].is_top_left_merged
                      THEN row.cells[i].colspan - 1 ELSE 0) :
                 i \in {j \in 1..Len(row.cells) : ~CellIsEmpty(row.cells[j])}}
    IN  IF ends = {} THEN 0 ELSE CHOOSE m \in ends : \A e \in ends : m >= e

\* HtmlConverter.SECTION_HEADERS_UPPER
SECTION_HEADERS_UPPER ==
    [n \in 1..Len(SECTION_HEADERS) |-> Upper(SECTION_HEADERS[n])]

(***************************************************************************)
(* Row classification.  The tags are the strings the code returns.         *)
(***************************************************************************)
Tags == {"empty", "title", "footer", "section_header", "table_row",
         "paragraph_line"}

\* HtmlConverter._is_like_title
IsLikeTitle(row, first_text) ==
    LET cell == row.cells[1]
        is_long_and_spans ==
            /\ Len(first_text) > 15
            /\ cell.colspan > Max(1, Len(row.cells) \div 2)
        has_keywords ==
            /\ ContainsAny(Lower(first_text), TITLE_KEYWORDS)
            /\ VoltageSearch(first_text)
        is_basec == Contains(Lower(first_text), BASEC)
    IN  is_long_and_spans \/ has_keywords \/ is_basec

\* _is_like_section_header with the keyword test applied to the lower-cased
\* text instead of the upper-cased one: no header word is ever found.
IsLikeSectionHeaderOnLowerText(row, first_text_upper, first_text_lower) ==
    IF ~ContainsAny(first_text_lower, SECTION_HEADERS_UPPER) THEN FALSE
    ELSE IF \/ WordCount(first_text_upper) > 8
            \/ Contains(first_text_upper, <<"\n">>)
            \/ ContainsAny(first_text_lower, DESCRIPTIVE_KEYWORDS_LOWER)
    THEN FALSE
    ELSE LET first_cell == row.cells[1]
             spans_wide ==
                 first_cell.colspan >= Max(2, Len(row.cells) \div 2)
             is_covered(cell) ==
                 /\ first_cell.is_merged
                 /\ cell.row = first_cell.row
                 /\ cell.column >= first_cell.merge_range_info[2].min_col
                 /\ cell.column <= first_cell.merge_range_info[2].max_col
             only_significant ==
                 \A i \in 2..Len(row.cells) :
                     ~(/\ ~is_covered(row.cells[i])
                       /\ ~CellIsEmpty(row.cells[i])
                       /\ Len(Strip(row.cells[i].value)) > 5)
         IN  spans_wide \/ only_significant

\* HtmlConverter._is_like_section_header
IsLikeSectionHeader(row, first_text_upper, first_text_lower) ==
    IF ~ContainsAny(first_text_upper, SECTION_HEADERS_UPPER) THEN FALSE
    ELSE IF \/ WordCount(first_text_upper) > 8
            \/ Contains(first_text_upper, <<"\n">>)
            \/ ContainsAny(first_text_lower, DESCRIPTIVE_KEYWORDS_LOWER)
    THEN FALSE
    ELSE LET first_cell == row.cells[1]
             spans_wide ==
                 first_cell.colspan >= Max(2, Len(row.cells) \div 2)
             is_covered(cell) ==
                 /\ first_cell.is_merged
                 /\ cell.row = first_cell.row
                 /\ cell.column >= first_cell.merge_range_info[2].min_col
                 /\ cell.column <= first_cell.merge_range_info[2].max_col
             only_significant ==
                 \A i \in 2..Len(row.cells) :
                     ~(/\ ~is_covered(row.cells[i])
                       /\ ~CellIsEmpty(row.cells[i])
                       /\ Len(Strip(row.cells[i].value)) > 5)
         IN  spans_wide \/ only_significant

\* HtmlConverter._is_like_footer
IsLikeFooter(row, first_text_lower) ==
    /\ Len(GetNonEmptyCells(row, FALSE)) = 1
    /\ ContainsAny(first_text_lower, FOOTER_KEYWORDS_LOWER)

\* The position window of the footer rule (converter_core.py:277).
InFooterWindow(row_idx, total_rows) == row_idx >= total_rows - 5

\* The title guard without its history test: any of the first rows passes.
InTitleWindowByIndexOnly(row_idx, prev_classification) == row_idx <= 3

\* The position and history guard of the title rule (converter_core.py:273).
InTitleWindow(row_idx, prev_classification) ==
    row_idx <= 3 /\ prev_classification = None

\* Rule 4 without the continuation test: the previous classification is
\* not looked at.
TableRowOrParagraphByShapeOnly(non_empty_cells, prev_classification) ==
    LET first_cell == non_empty_cells[1]
        first_text == Strip(first_cell.value)
        has_borders == first_cell.border
    IN  IF \/ Len(non_empty_cells) > 1
           \/ (Len(non_empty_cells) = 1 /\ first_cell.colspan > 1)
           \/ has_borders
        THEN IF /\ Len(non_empty_cells) = 1
                /\ first_cell.colspan > 1
                /\ WordCount(first_text) > 10
                /\ ~has_borders
             THEN "paragraph_line"
             ELSE "table_row"
        ELSE "paragraph_line"

\* Rule 4 of _classify_row and its paragraph override
\* (converter_core.py:284-295), for a row none of rules 1-3 matched.
TableRowOrParagraph(non_empty_cells, prev_classification) ==
    LET first_cell == non_empty_cells[1]
        first_text == Strip(first_cell.value)
        has_borders == first_cell.border
        is_continuation ==
            prev_classification \in {"table_row", "section_header"}
    IN  IF \/ Len(non_empty_cells) > 1
           \/ (Len(non_empty_cells) = 1 /\ first_cell.colspan > 1)
           \/ has_borders
           \/ is_continuation
        THEN IF /\ Len(non_empty_cells) = 1
                /\ first_cell.colspan > 1
                /\ WordCount(first_text) > 10
                /\ ~has_borders
                /\ ~is_continuation
             THEN "paragraph_line"
             ELSE "table_row"
        ELSE "paragraph_line"

\* _classify_row with the section-header rule tried before the footer rule.
ClassifyRowHeaderFirst(row, prev_classification, total_rows, min_sheet_col) ==
    IF RowIsEmpty(row, TRUE) THEN "empty"
    ELSE LET non_empty_cells == GetNonEmptyCells(row, TRUE)
         IN  IF non_empty_cells = <<>> THEN "empty"
             ELSE LET first_cell == non_empty_cells[1]
                      first_text == Strip(first_cell.value)
                      first_text_lower == Lower(first_text)
                      first_text_upper == Upper(first_text)
                  IN  IF /\ InTitleWindow(row.row_idx, prev_classification)
                         /\ IsLikeTitle(row, first_text)
                      THEN "title"
                      ELSE IF /\ first_cell.column = min_sheet_col
                              /\ IsLikeSectionHeader(row, first_text_upper,
                                                     first_text_lower)
                      THEN "section_header"
                      ELSE IF /\ InFooterWindow(row.row_idx, total_rows)
                              /\ IsLikeFooter(row, first_text_lower)
                      THEN "footer"
                      ELSE TableRowOrParagraph(non_empty_cells,
                                               prev_classification)

\* _classify_row with "nothing classified yet" read off the converter's
\* own output list instead of the prev_classification argument.
ClassifyRowByOutputSoFar(row, prev_classification, total_rows, min_sheet_col) ==
    IF RowIsEmpty(row, TRUE) THEN "empty"
    ELSE LET non_empty_cells == GetNonEmptyCells(row, TRUE)
         IN  IF non_empty_cells = <<>> THEN "empty"
             ELSE LET first_cell == non_empty_cells[1]
                      first_text == Strip(first_cell.value)
                      first_text_lower == Lower(first_text)
                      first_text_upper == Upper(first_text)
                  IN  IF /\ row.row_idx <= 3
                         /\ content_elements = <<>>
                         /\ IsLikeTitle(row, first_text)
                      THEN "title"
                      ELSE IF /\ InFooterWindow(row.row_idx, total_rows)
                              /\ IsLikeFooter(row, first_text_lower)
                      THEN "footer"
                      ELSE IF /\ first_cell.column = min_sheet_col
                              /\ IsLikeSectionHeader(row, first_text_upper,
                                                     first_text_lower)
                      THEN "section_header"
                      ELSE TableRowOrParagraph(non_empty_cells,
                                               prev_classification)

\* HtmlConverter._classify_row; total_rows is len(self.sheet_data.rows) and
\* min_sheet_col is self.sheet_data.sheet.min_column.
ClassifyRow(row, prev_classification, total_rows, min_sheet_col) ==
    IF RowIsEmpty(row, TRUE) THEN "empty"
    ELSE LET non_empty_cells == GetNonEmptyCells(row, TRUE)
         IN  IF non_empty_cells = <<>> THEN "empty"
             ELSE LET first_cell == non_empty_cells[1]
                      first_text == Strip(first_cell.value)
                      first_text_lower == Lower(first_text)
                      first_text_upper == Upper(first_text)
                  IN  IF /\ InTitleWindow(row.row_idx, prev_classification)
                         /\ IsLikeTitle(row, first_text)
                      THEN "title"
                      ELSE IF /\ InFooterWindow(row.row_idx, total_rows)
                              /\ IsLikeFooter(row, first_text_lower)
                      THEN "footer"
                      ELSE IF /\ first_cell.column = min_sheet_col
                              /\ IsLikeSectionHeader(row, first_text_upper,
                                                     first_text_lower)
                      THEN "section_header"
                      ELSE TableRowOrParagraph(non_empty_cells,
                                               prev_classification)

(***************************************************************************)
(* Markup elements.  Every element of content_elements is a record of one  *)
(* shape: tag (the element name and class), children (text nodes and <br>  *)
(* nodes), table (the <table> of a table container), src (the asset of an  *)
(* <img>) and rows, the indices of the grid rows the element was built     *)
(* from.  Horizontal alignment only adds a CSS class and is left out.      *)
(***************************************************************************)
BR == <<"<br>">>

NoTable == [none |-> TRUE, has_thead |-> FALSE, thead |-> <<>>, tbody |-> <<>>]

Element(tag, children, table, src, from_rows) ==
    [tag |-> tag, children |-> children, table |-> table, src |-> src,
     rows |-> from_rows]

\* Python's None where a tag is expected.
NoElement == Element("none", <<>>, NoTable, <<>>, <<>>)

\* str(value) for a cell value that is text
Str(value) == IF value = NoValue THEN <<"N", "o", "n", "e">> ELSE value

\* CellData.get_formatted_value
GetFormattedValue(cell) == IF cell.value = NoValue THEN <<>> ELSE cell.value

\* HtmlConverter._append_text_with_br: the child nodes appended for `text`.
AppendTextWithBr(text) ==
    LET lines == SplitLines(text)
        node(i) ==
            LET line == Strip(lines[i])
            IN  IF line # <<>> \/ i < Len(lines)
                THEN <<line>> \o (IF i < Len(lines) THEN <<BR>> ELSE <<>>)
                ELSE <<>>
        RECURSIVE upto(_)
        upto(n) == IF n = 0 THEN <<>> ELSE upto(n - 1) \o node(n)
    IN  upto(Len(lines))

\* `next((cell for cell in row_data.cells if not cell.is_empty()), None)`
FirstNonEmptyCell(row) ==
    LET found == SelectCells(row.cells,
                             {i \in 1..Len(row.cells) :
                                 ~CellIsEmpty(row.cells[i])})
    IN  IF found = <<>> THEN <<>> ELSE <<found[1]>>

\* HtmlConverter._add_title_tag: content_elements after the call.
AddTitleTag(elements, row) ==
    LET title_cell == FirstNonEmptyCell(row)
    IN  IF title_cell = <<>> THEN elements
        ELSE Append(elements,
                    Element("h1.cable-title",
                            AppendTextWithBr(Strip(Str(title_cell[1].value))),
                            NoTable, <<>>, <<row.row_idx>>))

\* HtmlConverter._add_section_header_tag
AddSectionHeaderTag(elements, row) ==
    LET header_cell == FirstNonEmptyCell(row)
    IN  IF header_cell = <<>> THEN elements
        ELSE Append(elements,
                    Element("h2.section-header",
                            <<Strip(Str(header_cell[1].value))>>,
                            NoTable, <<>>, <<row.row_idx>>))

\* HtmlConverter._add_footer_tag
AddFooterTag(elements, row) ==
    LET footer_cell == FirstNonEmptyCell(row)
    IN  IF footer_cell = <<>> THEN elements
        ELSE Append(elements,
                    Element("div.footer-text",
                            AppendTextWithBr(Strip(Str(footer_cell[1].value))),
                            NoTable, <<>>, <<row.row_idx>>))

(***************************************************************************)
(* Table reconstruction (HtmlConverter._create_table_element).             *)
(***************************************************************************)
\* The header test of one row at block index idx (converter_core.py:406-411).
IsHeaderRow(idx, non_empty) ==
    LET all_bold == \A i \in 1..Len(non_empty) : non_empty[i].bold
        has_complex_merge ==
            \E i \in 1..Len(non_empty) :
                non_empty[i].rowspan > 1 \/ non_empty[i].colspan > 1
    IN  \/ (idx < 3 /\ (all_bold \/ has_complex_merge))
        \/ (idx >= 3 /\ all_bold)

\* The header scan (converter_core.py:398-417) from 0-based block index
\* idx on: the header rows found and potential_header_end_idx.
RECURSIVE HeaderScan(_, _, _, _)
HeaderScan(table_rows_data, idx, header_rows_data, end_idx) ==
    IF idx >= Len(table_rows_data)
    THEN [header_rows_data |-> header_rows_data, end_idx |-> end_idx]
    ELSE LET row == table_rows_data[idx + 1]
             non_empty == GetNonEmptyCells(row, FALSE)
         IN  IF non_empty = <<>>
             THEN HeaderScan(table_rows_data, idx + 1, header_rows_data, end_idx)
             ELSE IF IsHeaderRow(idx, non_empty)
             THEN HeaderScan(table_rows_data, idx + 1,
                             Append(header_rows_data, row), idx + 1)
             ELSE [header_rows_data |-> header_rows_data, end_idx |-> end_idx]

\* The marks of a rowspan taken one column further than the range.
RowspanCoverageOneColumnWider(cell, row_idx) ==
    IF cell.rowspan > 1
    THEN {<<row_idx + i, cell.column + j>> :
             i \in 1..(cell.rowspan - 1), j \in 0..cell.colspan}
    ELSE {}

\* The coordinates a rendered cell with rowspan > 1 marks for the rows
\* below it (converter_core.py:444-447 and 480-483).
RowspanCoverage(cell, row_idx) ==
    IF cell.rowspan > 1
    THEN {<<row_idx + i, cell.column + j>> :
             i \in 1..(cell.rowspan - 1), j \in 0..(cell.colspan - 1)}
    ELSE {}

\* The cells of one row that are rendered, given the coverage set.
RenderedCells(row, max_col_index, covered) ==
    SelectCells(row.cells,
                {i \in 1..Len(row.cells) :
                    /\ ~(row.cells[i].column > max_col_index)
                    /\ row.cells[i].coordinate \notin covered
                    /\ ~IsMergeCovered(row.cells[i])})

\* One <th> or <td>.
CellTag(name, scope_row, cell) ==
    [name |-> name, scope_row |-> scope_row,
     colspan |-> cell.colspan, rowspan |-> cell.rowspan,
     children |-> AppendTextWithBr(GetFormattedValue(cell)),
     coordinate |-> cell.coordinate]

\* One <tr> of the thead: every cell is a <th>.
HeadTr(row, shown) ==
    [row_idx |-> row.row_idx,
     cells |-> [i \in 1..Len(shown) |-> CellTag("th", FALSE, shown[i])]]

\* A <tr> of the tbody whose row header is the cell of column 1, when
\* that cell is rendered, instead of the first cell that is rendered.
BodyTrHeaderInFirstColumn(row, shown) ==
    [row_idx |-> row.row_idx,
     cells |-> [i \in 1..Len(shown) |->
                   IF shown[i].column = 1 THEN CellTag("th", TRUE, shown[i])
                   ELSE CellTag("td", FALSE, shown[i])]]

\* One <tr> of the tbody: the first visible cell is <th scope="row">.
BodyTr(row, shown) ==
    [row_idx |-> row.row_idx,
     cells |-> [i \in 1..Len(shown) |->
                   IF i = 1 THEN CellTag("th", TRUE, shown[i])
                   ELSE CellTag("td", FALSE, shown[i])]]

\* The rows of one section (thead when head, else tbody) rendered in
\* order with the coverage set threaded through: the <tr>s appended (a
\* <tr> without cells is not appended) and the final coverage set.
RECURSIVE BuildSection(_, _, _, _, _)
BuildSection(section_rows, n, max_col_index, covered0, head) ==
    IF n = 0 THEN [trs |-> <<>>, covered |-> covered0]
    ELSE LET before == BuildSection(section_rows, n - 1, max_col_index,
                                    covered0, head)
             row == section_rows[n]
             shown == RenderedCells(row, max_col_index, before.covered)
             tr == IF head THEN HeadTr(row, shown) ELSE BodyTr(row, shown)
             marks == UNION {RowspanCoverage(shown[i], row.row_idx) :
                             i \in 1..Len(shown)}
         IN  [trs |-> IF shown # <<>> THEN Append(before.trs, tr)
                      ELSE before.trs,
              covered |-> before.covered \cup marks]

\* max_col_index (converter_core.py:392-393)
MaxColIndex(table_rows_data) ==
    LET lasts == {GetLastDataColumnIndex(table_rows_data[i]) :
                  i \in 1..Len(table_rows_data)} \cup {0}
    IN  CHOOSE m \in lasts : \A e \in lasts : m >= e

\* The coverage set the tbody starts from (converter_core.py:390, 450):
\* the thead's coverage is merged into it.
BodyStartCoverage(thead_processed_coords) == thead_processed_coords

\* The <table> of the appended <tr>s, None when there is none
\* (converter_core.py:489-490).
TableTag(has_thead, thead_trs, tbody_trs) ==
    IF thead_trs = <<>> /\ tbody_trs = <<>> THEN NoTable
    ELSE [none |-> FALSE, has_thead |-> has_thead,
          thead |-> thead_trs, tbody |-> tbody_trs]

\* "Build Tbody" and the result (converter_core.py:452-490), thead being
\* the rendered header section.
TableAfterThead(header_rows_data, data_rows_data, max_col_index, thead) ==
    TableTag(header_rows_data # <<>>, thead.trs,
             BuildSection(data_rows_data, Len(data_rows_data), max_col_index,
                          BodyStartCoverage(thead.covered), FALSE).trs)

\* The table built with the body taken from all the rows of the block,
\* the header rows not sliced off.
TableAfterScanWithoutSlice(table_rows_data, max_col_index, scan) ==
    TableAfterThead(scan.header_rows_data, table_rows_data, max_col_index,
                    BuildSection(scan.header_rows_data,
                                 Len(scan.header_rows_data),
                                 max_col_index, {}, TRUE))

\* "Build Thead" and what follows (converter_core.py:417-490), scan being
\* the result of the header scan.
TableAfterScan(table_rows_data, max_col_index, scan) ==
    TableAfterThead(scan.header_rows_data,
                    SubSeq(table_rows_data, scan.end_idx + 1,
                           Len(table_rows_data)),
                    max_col_index,
                    BuildSection(scan.header_rows_data,
                                 Len(scan.header_rows_data),
                                 max_col_index, {}, TRUE))

\* _create_table_element from the test of max_col_index on
\* (converter_core.py:394-490).
TableOfWidth(table_rows_data, max_col_index) ==
    IF max_col_index = 0 THEN NoTable
    ELSE TableAfterScan(table_rows_data, max_col_index,
                        HeaderScan(table_rows_data, 0, <<>>, 0))

\* HtmlConverter._create_table_element
CreateTableElement(table_rows_data) ==
    IF table_rows_data = <<>> THEN NoTable
    ELSE TableOfWidth(table_rows_data, MaxColIndex(table_rows_data))

(***************************************************************************)
(* The forward pass (HtmlConverter.convert).                               *)
(***************************************************************************)
\* _add_image_tag without the record of the path in images_used.
AddImageTagWithoutUsedSet(row_idx, used) ==
    LET hits == {i \in 1..Len(images) : images[i].row = row_idx}
    IN  IF hits = {} THEN [tag |-> NoElement, used |-> used]
        ELSE LET i == CHOOSE h \in hits : \A k \in hits : h <= k
             IN  [tag |-> Element("img.excel-image", <<>>, NoTable,
                                  images[i].path, <<row_idx>>),
                  used |-> used]

\* HtmlConverter._add_image_tag: the tag returned (NoElement for None) and
\* images_used after the call.
AddImageTag(row_idx, used) ==
    LET hits == {i \in 1..Len(images) :
                    images[i].row = row_idx /\ images[i].path \notin used}
    IN  IF hits = {} THEN [tag |-> NoElement, used |-> used]
        ELSE LET i == CHOOSE h \in hits : \A k \in hits : h <= k
             IN  [tag |-> Element("img.excel-image", <<>>, NoTable,
                                  images[i].path, <<row_idx>>),
                  used |-> used \cup {images[i].path}]

\* The end of _flush_table (converter_core.py:497-502): the table, unless
\* None, is appended in its container.
AppendTable(elements, table_rows, table_element) ==
    IF ~table_element.none
    THEN Append(elements,
                Element("div.table-responsive", <<>>, table_element, <<>>,
                        [i \in 1..Len(table_rows) |-> table_rows[i].row_idx]))
    ELSE elements

\* HtmlConverter._flush_table: content_elements after the call.
FlushTable(elements, table_rows) ==
    IF table_rows = <<>> THEN elements
    ELSE AppendTable(elements, table_rows, CreateTableElement(table_rows))

\* The end of _flush_paragraph (converter_core.py:507-511).
AppendParagraph(elements, paragraph_lines, para_text) ==
    IF para_text # <<>>
    THEN Append(elements,
                Element("p.section-description", AppendTextWithBr(para_text),
                        NoTable, <<>>,
                        [i \in 1..Len(paragraph_lines) |->
                            paragraph_lines[i].row]))
    ELSE elements

\* HtmlConverter._flush_paragraph.  A buffered line is kept with the index
\* of the row it was taken from.
FlushParagraph(elements, paragraph_lines) ==
    IF paragraph_lines = <<>> THEN elements
    ELSE AppendParagraph(elements, paragraph_lines,
                         Strip(Join(<<"\n">>,
                                    [i \in 1..Len(paragraph_lines) |->
                                        paragraph_lines[i].text])))

\* `" ".join(str(c.value) for c in row_data.get_non_empty_cells()).strip()`
LineText(row) ==
    LET cells == GetNonEmptyCells(row, TRUE)
    IN  Strip(Join(<<" ">>, [i \in 1..Len(cells) |-> Str(cells[i].value)]))

\* The first loop of convert (converter_core.py:521-526) from row n on:
\* the first image tag found among the first rows.
RECURSIVE TitleImageScan(_, _, _)
TitleImageScan(n, limit, used) ==
    IF n > limit THEN [tag |-> NoElement, used |-> used]
    ELSE LET got == AddImageTag(rows[n].row_idx, used)
         IN  IF got.tag # NoElement THEN got
             ELSE TitleImageScan(n + 1, limit, used)

\* `if cond: self._flush_table(current_table_rows); current_table_rows = []`
\* on st = [elements, table_rows, lines].
FlushTableIf(cond, st) ==
    IF cond
    THEN [st EXCEPT !.elements = FlushTable(st.elements, st.table_rows),
                    !.table_rows = <<>>]
    ELSE st

\* `if cond: self._flush_paragraph(current_paragraph_lines);
\* current_paragraph_lines = []`
FlushParagraphIf(cond, st) ==
    IF cond
    THEN [st EXCEPT !.elements = FlushParagraph(st.elements, st.lines),
                    !.lines = <<>>]
    ELSE st

\* The context-change block without its flush of the paragraph buffer
\* at a table row.
ContextChangeKeepingParagraph(st, classification, last) ==
    FlushTableIf(
        classification = "paragraph_line" /\ last = "table_row",
        FlushTableIf(classification # "table_row" /\ last = "table_row", st))

\* The block "Finish previous block if context changes"
\* (converter_core.py:540-545).
ContextChange(st, classification, last) ==
    FlushTableIf(
        classification = "paragraph_line" /\ last = "table_row",
        FlushParagraphIf(
            classification = "table_row" /\ last = "paragraph_line",
            FlushTableIf(classification # "table_row" /\ last = "table_row",
                         st)))

\* The block "Handle Image Placement" (converter_core.py:550-554).
PlaceImage(st, img_tag, classification, last) ==
    IF img_tag # NoElement /\ classification # "title"
    THEN [FlushParagraphIf(classification # "paragraph_line"
                               /\ last = "paragraph_line", st)
             EXCEPT !.elements = Append(@, img_tag)]
    ELSE st

\* The two flushes of the title, section_header and footer branches
\* without the reset of the buffers that follows them.
FlushBothKeepingBuffers(st) ==
    [elements |-> FlushTable(FlushParagraph(st.elements, st.lines),
                             st.table_rows),
     table_rows |-> st.table_rows,
     lines |-> st.lines]

\* The reset of the two buffers without the two flushes before it.
FlushBothDroppingBuffers(st) ==
    [elements |-> st.elements, table_rows |-> <<>>, lines |-> <<>>]

\* Both buffers flushed and reset, as the title, section_header and
\* footer branches do (converter_core.py:559-560, 566-567, 571-572).
FlushBoth(st) ==
    [elements |-> FlushTable(FlushParagraph(st.elements, st.lines),
                             st.table_rows),
     table_rows |-> <<>>,
     lines |-> <<>>]

\* An `empty` branch that leaves the open buffers alone.
HandleEmptyWithoutFlush(st, last) == st

\* The `empty` branch (converter_core.py:579-583).
HandleEmpty(st, last) ==
    FlushParagraphIf(last = "paragraph_line",
                     FlushTableIf(last = "table_row", st))

\* The block "Handle Current Row Classification" (converter_core.py:558-583).
HandleRow(st, row, classification, last, title_image) ==
    IF classification = "title"
    THEN [FlushBoth(st) EXCEPT
             !.elements = IF title_image # NoElement
                          THEN Append(AddTitleTag(@, row), title_image)
                          ELSE AddTitleTag(@, row)]
    ELSE IF classification = "section_header"
    THEN [FlushBoth(st) EXCEPT !.elements = AddSectionHeaderTag(@, row)]
    ELSE IF classification = "footer"
    THEN [FlushBoth(st) EXCEPT !.elements = AddFooterTag(@, row)]
    ELSE IF classification = "table_row"
    THEN [st EXCEPT !.table_rows = Append(st.table_rows, row)]
    ELSE IF classification = "paragraph_line"
    THEN IF LineText(row) # <<>>
         THEN [st EXCEPT !.lines =
                  Append(st.lines,
                         [text |-> LineText(row), row |-> row.row_idx])]
         ELSE st
    ELSE IF classification = "empty"
    THEN HandleEmpty(st, last)
    ELSE st

\* The state machine of one loop iteration (converter_core.py:538-583) on
\* the row, its classification and its image tag.
RowStep(st, row, classification, last, img_tag, title_image) ==
    HandleRow(PlaceImage(ContextChange(st, classification, last),
                         img_tag, classification, last),
              row, classification, last, title_image)

\* The end of the pass with the flush of the table buffer alone.
FlushRemainingTableOnly(elements, table_rows, lines) ==
    FlushTable(elements, table_rows)

\* "Flush remaining buffers" (converter_core.py:590-591): the table
\* buffer, then the paragraph buffer.
FlushRemaining(elements, table_rows, lines) ==
    FlushParagraph(FlushTable(elements, table_rows), lines)

\* The value of title_image_tag.get('data-row-idx', -1): the tag built by
\* _add_image_tag carries no such attribute.
DataRowIdx(tag) == -1

\* An update of last_classification that forgets it at an empty row.
NextLastClassificationResetOnEmpty(classification, last) ==
    IF classification # "empty" THEN classification ELSE None

\* "Update last classification (ignore empty)" (converter_core.py:586-587).
NextLastClassification(classification, last) ==
    IF classification # "empty" THEN classification ELSE last

(***************************************************************************)
(* Actions.                                                                *)
(***************************************************************************)
\* ExcelSheetData.__init__: the merge index, then the rows.
Construct ==
    /\ pc = "raw"
    /\ merged_cells_map' = CreateMergedCellsMap(sheet)
    /\ rows' = ParseSheet(sheet, CreateMergedCellsMap(sheet))
    /\ pc' = "parsed"
    /\ UNCHANGED <<sheet, images, row_ptr, current_table_rows,
                   current_paragraph_lines, last_classification,
                   title_image_tag, images_used, content_elements, tags,
                   call, ret,
                   output_file, job_updates, conversion_jobs>>

\* convert up to its main loop: the locals and the title image.
ConvertStart ==
    /\ pc = "parsed"
    /\ LET got == TitleImageScan(1, Min(5, Len(rows)), images_used)
       IN  /\ title_image_tag' = got.tag
           /\ images_used' = got.used
    /\ current_table_rows' = <<>>
    /\ current_paragraph_lines' = <<>>
    /\ last_classification' = None
    /\ row_ptr' = 1
    /\ pc' = "loop"
    /\ UNCHANGED <<sheet, merged_cells_map, rows, images, content_elements,
                   tags, call, ret,
                   output_file, job_updates, conversion_jobs>>

\* One iteration of the main loop of convert.
ConvertRow ==
    /\ pc = "loop"
    /\ row_ptr <= Len(rows)
    /\ LET row == rows[row_ptr]
           classification ==
               ClassifyRow(row, last_classification, Len(rows),
                           sheet.min_column)
           got == IF \/ title_image_tag = NoElement
                     \/ row.row_idx # DataRowIdx(title_image_tag)
                  THEN AddImageTag(row.row_idx, images_used)
                  ELSE [tag |-> NoElement, used |-> images_used]
           st0 == [elements |-> content_elements,
                   table_rows |-> current_table_rows,
                   lines |-> current_paragraph_lines]
           st3 == RowStep(st0, row, classification, last_classification,
                          got.tag, title_image_tag)
       IN  /\ content_elements' = st3.elements
           /\ current_table_rows' = st3.table_rows
           /\ current_paragraph_lines' = st3.lines
           /\ images_used' = got.used
           /\ last_classification' =
                  NextLastClassification(classification, last_classification)
           /\ tags' = Append(tags, classification)
    /\ row_ptr' = row_ptr + 1
    /\ UNCHANGED <<sheet, merged_cells_map, rows, images, pc,
                   title_image_tag, call, ret,
                   output_file, job_updates, conversion_jobs>>

\* "Flush remaining buffers" (converter_core.py:590-591).
ConvertFinish ==
    /\ pc = "loop"
    /\ row_ptr > Len(rows)
    /\ content_elements' =
           FlushRemaining(content_elements, current_table_rows,
                          current_paragraph_lines)
    /\ pc' = "done"
    /\ UNCHANGED <<sheet, merged_cells_map, rows, images, row_ptr,
                   current_table_rows, current_paragraph_lines,
                   last_classification, title_image_tag, images_used, tags,
                   call, ret,
                   output_file, job_updates, conversion_jobs>>

\* One isolated call of _classify_row on the arguments drawn in InitClassify.
ClassifyCall ==
    /\ pc = "call"
    /\ ret' = ClassifyRow(call.row, call.prev, call.total_rows, call.min_col)
    /\ pc' = "returned"
    /\ UNCHANGED <<sheet, merged_cells_map, rows, images, row_ptr,
                   current_table_rows, current_paragraph_lines,
                   last_classification, title_image_tag, images_used,
                   content_elements, tags, call,
                   output_file, job_updates, conversion_jobs>>

(***************************************************************************)
(* Cell texts of the input pools.                                          *)
(***************************************************************************)
\* 'DIMENSIONS': a section-header word.
TxtDimensions ==
    <<"D", "I", "M", "E", "N", "S", "I", "O", "N", "S">>
\* ' DIMENSIONS ': the same with surrounding blanks.
TxtDimensionsPadded ==
    <<" ", "D", "I", "M", "E", "N", "S", "I", "O", "N", "S", " ">>
\* 'Cable 0.6/1 kV': title keyword plus voltage pattern, 14 characters.
TxtCableTitle ==
    <<"C", "a", "b", "l", "e", " ", "0", ".", "6", "/", "1", " ", "k", "V">>
\* 'Low voltage products': 20 characters, no keyword of any list.
TxtLongTitle ==
    <<"L", "o", "w", " ", "v", "o", "l", "t", "a", "g", "e", " ", "p", "r",
      "o", "d", "u", "c", "t", "s">>
\* 'BASEC approved': manufacturer marker.
TxtBasec ==
    <<"B", "A", "S", "E", "C", " ", "a", "p", "p", "r", "o", "v", "e", "d">>
\* 'subject to change': footer keyword, 17 characters.
TxtSubject ==
    <<"s", "u", "b", "j", "e", "c", "t", " ", "t", "o", " ", "c", "h", "a",
      "n", "g", "e">>
\* 'liability': footer keyword, 9 characters.
TxtLiability ==
    <<"l", "i", "a", "b", "i", "l", "i", "t", "y">>
\* 'DIMENSIONS tolerances': section-header word and footer keyword.
TxtDimTol ==
    <<"D", "I", "M", "E", "N", "S", "I", "O", "N", "S", " ", "t", "o", "l",
      "e", "r", "a", "n", "c", "e", "s">>
\* 'BASEC STANDARDS': manufacturer marker and section-header word.
TxtBasecStd ==
    <<"B", "A", "S", "E", "C", " ", "S", "T", "A", "N", "D", "A", "R", "D",
      "S">>
\* 'basec liability': manufacturer marker and footer keyword.
TxtBasecLiab ==
    <<"b", "a", "s", "e", "c", " ", "l", "i", "a", "b", "i", "l", "i", "t",
      "y">>
\* '12': a short data value.
TxtNum ==
    <<"1", "2">>
\* 'Size mm': a data label, 7 characters.
TxtSize ==
    <<"S", "i", "z", "e", " ", "m", "m">>
\* 'a b c d e f g h i j k': 11 words.
TxtProse ==
    <<"a", " ", "b", " ", "c", " ", "d", " ", "e", " ", "f", " ", "g", " ",
      "h", " ", "i", " ", "j", " ", "k">>
\* 'DIMENSIONS a b c d e f g h': section-header word followed by 8 more words.
TxtDimNine ==
    <<"D", "I", "M", "E", "N", "S", "I", "O", "N", "S", " ", "a", " ", "b",
      " ", "c", " ", "d", " ", "e", " ", "f", " ", "g", " ", "h">>
\* 'DIMENSIONS\nmm': section-header word with an embedded line break.
TxtDimBreak ==
    <<"D", "I", "M", "E", "N", "S", "I", "O", "N", "S", "\n", "m", "m">>
\* 'note DIMENSIONS': section-header word with a descriptive keyword.
TxtDimNote ==
    <<"n", "o", "t", "e", " ", "D", "I", "M", "E", "N", "S", "I", "O", "N",
      "S">>
\* ' ': whitespace only.
TxtBlank ==
    <<" ">>

TextPool ==
    {TxtDimensions, TxtDimensionsPadded, TxtCableTitle, TxtLongTitle,
     TxtBasec, TxtSubject, TxtLiability, TxtDimTol,
     TxtBasecStd, TxtBasecLiab, TxtNum, TxtSize,
     TxtProse, TxtDimNine, TxtDimBreak, TxtDimNote,
     TxtBlank}

(***************************************************************************)
(* Bounds and input pools.                                                 *)
(***************************************************************************)
\* Rows of a grid the forward pass is run on.
MaxRows == 4

\* Columns of a grid (forward pass) and widest row (isolated classifier call).
MaxCols == 4

\* Rows of the sheet an isolated classifier call is placed in.
MaxSheetRows == 7

Blank == RawCell(NoValue, FALSE, FALSE)

\* A worksheet from its rows of raw cells and its merge ranges.
Worksheet(cells, ranges) ==
    [max_row |-> Len(cells),
     max_column |-> IF cells = <<>> THEN 1 ELSE Len(cells[1]),
     min_column |-> 1,
     cells |-> cells,
     ranges |-> ranges]

\* A row of ncols raw cells: `first` in column 1, `other` in column 2 and,
\* when fill, in every later column.
RawRow(ncols, first, other, fill) ==
    [c \in 1..ncols |-> IF c = 1 THEN first
                        ELSE IF c = 2 \/ fill THEN other
                        ELSE Blank]

\* Row kinds of the grids of the forward pass.  across: column 1 is merged
\* over the full width; down: column 1 is merged with the cell below it.
RowKinds ==
    {[first |-> RawCell(TxtLongTitle, TRUE, FALSE), other |-> Blank,
      across |-> TRUE, down |-> FALSE],
     [first |-> RawCell(TxtDimensions, TRUE, FALSE), other |-> Blank,
      across |-> TRUE, down |-> FALSE],
     [first |-> RawCell(TxtSize, TRUE, TRUE),
      other |-> RawCell(TxtSize, TRUE, TRUE),
      across |-> FALSE, down |-> FALSE],
     [first |-> RawCell(TxtNum, FALSE, FALSE),
      other |-> RawCell(TxtNum, FALSE, FALSE),
      across |-> FALSE, down |-> FALSE],
     [first |-> RawCell(TxtSize, FALSE, TRUE),
      other |-> RawCell(TxtNum, FALSE, TRUE),
      across |-> FALSE, down |-> TRUE],
     [first |-> RawCell(TxtProse, FALSE, FALSE), other |-> Blank,
      across |-> FALSE, down |-> FALSE],
     [first |-> RawCell(TxtLiability, FALSE, FALSE), other |-> Blank,
      across |-> FALSE, down |-> FALSE],
     [first |-> Blank, other |-> Blank, across |-> FALSE, down |-> FALSE]}

\* The merge ranges of a grid of row kinds, in row order.
RECURSIVE KindRanges(_, _)
KindRanges(kinds, r) ==
    IF r > Len(kinds) THEN <<>>
    ELSE (IF kinds[r].across /\ MaxCols > 1
          THEN <<Range(r, 1, r, MaxCols)>> ELSE <<>>)
         \o (IF kinds[r].down /\ r < Len(kinds)
             THEN <<Range(r, 1, r + 1, 1)>> ELSE <<>>)
         \o KindRanges(kinds, r + 1)

GridOf(kinds) ==
    Worksheet([r \in 1..Len(kinds) |->
                  RawRow(MaxCols, kinds[r].first, kinds[r].other, TRUE)],
              KindRanges(kinds, 1))

GridPool ==
    {GridOf(kinds) : kinds \in UNION {[1..n -> RowKinds] : n \in 1..MaxRows}}

\* The anchors the image collaborator may supply.
ImagePool == {<<>>}

(***************************************************************************)
(* Inputs of an isolated _classify_row call: one row of a sheet of         *)
(* total_rows rows, built by the same constructor as every other row.      *)
(***************************************************************************)
\* Merge shapes of the row: none, columns 1-2, the full width, columns 2 to
\* the last, and column 1 merged into the cell above it.
MergeShapes == {"none", "first2", "across", "rest", "above"}

ShapeFits(shape, ncols, idx) ==
    CASE shape = "none" -> TRUE
      [] shape = "first2" -> ncols >= 3
      [] shape = "across" -> ncols >= 2
      [] shape = "rest" -> ncols >= 3
      [] shape = "above" -> idx >= 2

ShapeRanges(shape, ncols, idx) ==
    CASE shape = "none" -> <<>>
      [] shape = "first2" -> <<Range(idx, 1, idx, 2)>>
      [] shape = "across" -> <<Range(idx, 1, idx, ncols)>>
      [] shape = "rest" -> <<Range(idx, 2, idx, ncols)>>
      [] shape = "above" -> <<Range(idx - 1, 1, idx, 1)>>

\* The sheet around the row: every other row is blank, except the owner
\* of the "above" merge, which holds the text of column 1.
CallSheet(total, idx, ncols, first, other, shape) ==
    Worksheet([r \in 1..total |->
                  IF r = idx THEN RawRow(ncols, first, other, FALSE)
                  ELSE IF r = idx - 1 /\ shape = "above"
                  THEN RawRow(ncols, first, Blank, FALSE)
                  ELSE RawRow(ncols, Blank, Blank, FALSE)],
              ShapeRanges(shape, ncols, idx))

CallRow(total, idx, ncols, first, other, shape) ==
    LET ws == CallSheet(total, idx, ncols, first, other, shape)
    IN  ParseSheet(ws, CreateMergedCellsMap(ws))[idx]

\* Texts of the second column of such a row.
OtherTexts == {NoValue, TxtNum, TxtSize}

\* Values of prev_classification: None, the tags convert passes on, and
\* 'start', which SqlConverter.convert passes.
PrevPool == {None, "title", "section_header", "table_row", "paragraph_line",
             "footer", "start"}

(***************************************************************************)
(* Worksheets with arbitrary merge-range lists, for the merge index.       *)
(***************************************************************************)
\* Rows and columns of such a worksheet, and the length of its range list.
MergeSheetRows == 2

MergeSheetCols == 3

MaxRanges == 2

DigitChars == <<"1", "2", "3", "4", "5", "6", "7", "8", "9">>

\* A text that names its cell, so that a resolved value tells its origin.
CellText(r, c) == <<"R", DigitChars[r], "C", DigitChars[c]>>

\* Every rectangle of more than one cell.
AllRanges ==
    {Range(r1, c1, r2, c2) :
        r1 \in 1..MergeSheetRows, r2 \in 1..MergeSheetRows,
        c1 \in 1..MergeSheetCols, c2 \in 1..MergeSheetCols} \
    {rng \in {Range(r1, c1, r2, c2) :
                 r1 \in 1..MergeSheetRows, r2 \in 1..MergeSheetRows,
                 c1 \in 1..MergeSheetCols, c2 \in 1..MergeSheetCols} :
        \/ rng.min_row > rng.max_row
        \/ rng.min_col > rng.max_col
        \/ (rng.min_row = rng.max_row /\ rng.min_col = rng.max_col)}

\* The coordinates openpyxl holds as MergedCell objects (value None): every
\* cell of a range but its top-left one.
MergedCellCoords(ranges) ==
    UNION {RangeCoords(ranges[n]) \ {TopLeft(ranges[n])} :
           n \in 1..Len(ranges)}

\* The worksheet with the given range list: a MergedCell has no value of
\* its own, every other cell holds the text naming it.
MergeSheet(ranges) ==
    Worksheet([r \in 1..MergeSheetRows |->
                  [c \in 1..MergeSheetCols |->
                      IF <<r, c>> \in MergedCellCoords(ranges) THEN Blank
                      ELSE RawCell(CellText(r, c), FALSE, FALSE)]],
              ranges)

MergeSheetPool ==
    {MergeSheet(ranges) :
        ranges \in UNION {[1..n -> AllRanges] : n \in 0..MaxRanges}}

\* Two ranges of the list share a coordinate.
RangesOverlap(ranges) ==
    \E m, n \in 1..Len(ranges) :
        m # n /\ RangeCoords(ranges[m]) \cap RangeCoords(ranges[n]) # {}

(***************************************************************************)
(* Specifications.                                                         *)
(***************************************************************************)
NoCall == [row |-> [row_idx |-> 0, cells |-> <<>>], prev |-> None,
           total_rows |-> 0, min_col |-> 1]

\* No file at args.output_path.
NoFile == [exists |-> FALSE, content |-> <<>>]

(***************************************************************************)
(* The table conversion_jobs update_job_status_db writes to.  A row holds  *)
(* the columns of the statement of converter_core.py:68: status,           *)
(* output_filepath (whether a path is stored), error_message (its length,  *)
(* 0 for NULL) and updated_at (NOW() is the number of the call).           *)
(***************************************************************************)
\* Rows of the table.
MaxJobs == 2

\* The values of the column status: the two the statement names and two
\* others.
JobStatuses == {"pending", "processing", "completed", "failed"}

\* A row as the application stored it, before any call of this script.
StoredJob(status) ==
    [status |-> status, output_filepath |-> FALSE, error_len |-> 0,
     updated_at |-> 0]

\* The WHERE clause without its test of the status.
WhereMatchesIdOnly(id, row, job_id) == id = job_id

\* `WHERE id=%s AND status NOT IN ('completed', 'failed')`
WhereMatches(id, row, job_id) ==
    id = job_id /\ row.status \notin {"completed", "failed"}

\* cursor.execute(sql, vals); conn.commit() (converter_core.py:68-70): the
\* table after the statement.
ExecuteUpdate(jobs, job_id, update, now) ==
    [id \in DOMAIN jobs |->
        IF WhereMatches(id, jobs[id], job_id)
        THEN [status |-> update.status,
              output_filepath |-> update.output_path,
              error_len |-> update.error_len,
              updated_at |-> now]
        ELSE jobs[id]]

\* update_job_status_db(job_id, ...): the statement is executed, or the
\* function returns before it (no database settings, line 58) or an
\* exception of the connection or of the statement is logged and
\* swallowed (lines 72-73), and the table is left as it was.
UpdateJobStatusDb(job_id, update, executed) ==
    /\ job_updates' = Append(job_updates, update)
    /\ conversion_jobs' =
           IF executed
           THEN ExecuteUpdate(conversion_jobs, job_id, update,
                              Len(job_updates) + 1)
           ELSE conversion_jobs

InitLocals ==
    /\ merged_cells_map = <<>>
    /\ rows = <<>>
    /\ row_ptr = 0
    /\ current_table_rows = <<>>
    /\ current_paragraph_lines = <<>>
    /\ last_classification = None
    /\ title_image_tag = NoElement
    /\ images_used = {}
    /\ content_elements = <<>>
    /\ tags = <<>>
    /\ output_file = NoFile
    /\ job_updates = <<>>
    /\ conversion_jobs = [id \in 1..MaxJobs |-> StoredJob("processing")]

\* A worksheet and its image anchors, before ExcelSheetData is built.
Init ==
    /\ sheet \in GridPool
    /\ images \in ImagePool
    /\ pc = "raw"
    /\ InitLocals
    /\ call = NoCall
    /\ ret = None

Next == Construct \/ ConvertStart \/ ConvertRow \/ ConvertFinish

\* The run of the markup conversion on one worksheet.
Spec == Init /\ [][Next]_vars

\* The arguments of one _classify_row call.  A call on row 1 of convert
\* has no previous classification.
InitClassify ==
    /\ \E total \in 1..MaxSheetRows, idx \in 1..MaxSheetRows,
          ncols \in 1..MaxCols, shape \in MergeShapes,
          t1 \in TextPool \cup {NoValue}, t2 \in OtherTexts,
          border \in BOOLEAN, prev \in PrevPool :
          /\ idx <= total
          /\ ShapeFits(shape, ncols, idx)
          /\ ncols = 1 => t2 = NoValue
          /\ (idx = 1 /\ prev # "start") => prev = None
          /\ call = [row |-> CallRow(total, idx, ncols,
                                     RawCell(t1, FALSE, border),
                                     RawCell(t2, FALSE, border), shape),
                     prev |-> prev,
                     total_rows |-> total,
                     min_col |-> 1]
    /\ sheet = Worksheet(<<>>, <<>>)
    /\ images = <<>>
    /\ pc = "call"
    /\ InitLocals
    /\ ret = None

\* The row classifier as a function of its arguments.
SpecClassify == InitClassify /\ [][ClassifyCall]_vars

\* A worksheet with any list of merge ranges, before ExcelSheetData is built.
InitSheet ==
    /\ sheet \in MergeSheetPool
    /\ images = <<>>
    /\ pc = "raw"
    /\ InitLocals
    /\ call = NoCall
    /\ ret = None

\* The construction of ExcelSheetData alone.
SpecSheet == InitSheet /\ [][Construct]_vars

(***************************************************************************)
(* Properties of the forward pass (specification Spec).                    *)
(***************************************************************************)
\* The Blocks of a content list: every element but the images.
Blocks(elements) ==
    SelectSeq(elements, LAMBDA e : e.tag # "img.excel-image")

\* The grid rows a list of elements was built from, in emission order.
RECURSIVE SourceRows(_)
SourceRows(elements) ==
    IF elements = <<>> THEN <<>>
    ELSE elements[1].rows \o SourceRows(Tail(elements))

\* The indices of the non-empty rows among rows 1..n, increasing.
RECURSIVE NonEmptyUpTo(_)
NonEmptyUpTo(n) ==
    IF n = 0 THEN <<>>
    ELSE NonEmptyUpTo(n - 1)
         \o (IF RowIsEmpty(rows[n], TRUE) THEN <<>> ELSE <<n>>)

\* The rows held in the open table buffer or paragraph buffer.
BufferedRows ==
    [i \in 1..Len(current_table_rows) |-> current_table_rows[i].row_idx]
    \o [i \in 1..Len(current_paragraph_lines) |->
           current_paragraph_lines[i].row]

\* C1: when convert has processed a grid, the rows of the emitted Blocks,
\* read in emission order, are exactly the non-empty rows of the grid in
\* increasing row order: every non-empty row is in exactly one Block, no
\* row is in two, an empty row is in none.  While the loop runs the same
\* holds of the rows visited so far, the open buffer counted last.
C1_BlocksPartitionNonEmptyRows ==
    /\ pc = "done" =>
           SourceRows(Blocks(content_elements)) = NonEmptyUpTo(Len(rows))
    /\ pc = "loop" =>
           SourceRows(Blocks(content_elements)) \o BufferedRows
               = NonEmptyUpTo(row_ptr - 1)

\* A finished run over a grid with an empty row that produced several
\* Blocks, one of them a table of two rows or more.
C1_Witness ==
    /\ pc = "done"
    /\ Len(Blocks(content_elements)) >= 2
    /\ \E n \in 1..Len(content_elements) :
           /\ content_elements[n].tag = "div.table-responsive"
           /\ Len(content_elements[n].rows) >= 2
    /\ \E i \in 1..Len(rows) : RowIsEmpty(rows[i], TRUE)

\* No empty row of the grid lies between two rows of the element.
NoEmptyRowInside(e) ==
    \A i, j \in 1..Len(e.rows) :
        \A k \in 1..Len(rows) :
            (e.rows[i] < k /\ k < e.rows[j]) => ~RowIsEmpty(rows[k], TRUE)

\* C2: no Table Block and no Paragraph Block contains two rows with an
\* empty row between them, and right after an empty row was processed no
\* accumulation is open.
C2_EmptyRowTerminatesAccumulation ==
    /\ \A n \in 1..Len(content_elements) :
           content_elements[n].tag
               \in {"div.table-responsive", "p.section-description"}
           => NoEmptyRowInside(content_elements[n])
    /\ (pc = "loop" /\ row_ptr > 1 /\ tags[row_ptr - 1] = "empty") =>
           /\ current_table_rows = <<>>
           /\ current_paragraph_lines = <<>>

\* A finished run in which an empty row split the prose into two
\* paragraphs and one in which it split the table rows into two tables
\* are both reached; this is the former.
C2_Witness ==
    /\ pc = "done"
    /\ \E n \in 1..(Len(content_elements) - 1) :
           /\ content_elements[n].tag = "p.section-description"
           /\ content_elements[n + 1].tag = "p.section-description"
           /\ \E k \in 1..Len(rows) :
                  /\ content_elements[n].rows[1] < k
                  /\ k < content_elements[n + 1].rows[1]
                  /\ tags[k] = "empty"

\* C6: a row is classified title only if its index is at most 3 and every
\* earlier row was classified empty; so at most one title heading is
\* emitted and no other Block comes before it.
C6_TitleOnlyFirstClassifiedRow ==
    /\ \A i \in 1..Len(tags) :
           tags[i] = "title" =>
               /\ i <= 3
               /\ \A j \in 1..(i - 1) : tags[j] = "empty"
    /\ Cardinality({n \in 1..Len(content_elements) :
                       content_elements[n].tag = "h1.cable-title"}) <= 1
    /\ \A n \in 1..Len(Blocks(content_elements)) :
           Blocks(content_elements)[n].tag = "h1.cable-title" => n = 1

\* A run whose title follows an empty row and in which a later row among
\* the first three, as title-like as the first, was not classified title.
C6_Witness ==
    /\ Len(tags) >= 3
    /\ tags[1] = "empty"
    /\ tags[2] = "title"
    /\ rows[3].cells[1].value = rows[2].cells[1].value
    /\ rows[3].cells[1].colspan = rows[2].cells[1].colspan
    /\ tags[3] # "title"
    /\ Len(Blocks(content_elements)) >= 2

\* The row's only non-empty cell is in the leftmost column, spans the full
\* width of the row and holds the one word DIMENSIONS.
IsFullWidthDimensionsRow(row) ==
    LET cells == GetNonEmptyCells(row, TRUE)
    IN  /\ Len(cells) = 1
        /\ cells[1].column = sheet.min_column
        /\ cells[1].colspan = Len(row.cells)
        /\ cells[1].value = TxtDimensions

\* C10: a row whose only non-empty cell is in the leftmost column, spans
\* the full row width and holds the text DIMENSIONS is classified
\* section_header and emitted as exactly one sub-heading whose text is
\* exactly DIMENSIONS.
C10_DimensionsRowIsSectionHeader ==
    \A i \in 1..Len(tags) :
        IsFullWidthDimensionsRow(rows[i]) =>
            /\ tags[i] = "section_header"
            /\ LET from == {n \in 1..Len(content_elements) :
                               \E k \in 1..Len(content_elements[n].rows) :
                                   content_elements[n].rows[k] = i}
               IN  /\ Cardinality(from) = 1
                   /\ \A n \in from :
                          /\ content_elements[n].tag = "h2.section-header"
                          /\ content_elements[n].children = <<TxtDimensions>>
                          /\ content_elements[n].rows = <<i>>

\* A finished run with a full-width DIMENSIONS row after a table row and
\* before another one.
C10_Witness ==
    /\ pc = "done"
    /\ \E i \in 2..(Len(rows) - 1) :
           /\ IsFullWidthDimensionsRow(rows[i])
           /\ tags[i - 1] = "table_row"
           /\ tags[i + 1] = "table_row"
           /\ tags[i] = "section_header"

(***************************************************************************)
(* Properties of the merge index (specification SpecSheet).                *)
(***************************************************************************)
\* The ranges of the worksheet that contain the coordinate.
Covering(coord) ==
    {n \in 1..Len(sheet.ranges) : coord \in RangeCoords(sheet.ranges[n])}

\* C3: once the grid is built, the cell at a coordinate inside a merge
\* range holds the value of that range's top-left coordinate, and the cell
\* at a coordinate no range covers holds its own value.
C3_MergedCoordinateResolvesToTopLeft ==
    pc = "parsed" =>
        \A r \in 1..Len(rows) :
            \A c \in 1..Len(rows[r].cells) :
                /\ \A n \in Covering(<<r, c>>) :
                       rows[r].cells[c].value
                           = SheetValue(sheet, TopLeft(sheet.ranges[n]))
                /\ Covering(<<r, c>>) = {} =>
                       rows[r].cells[c].value = SheetValue(sheet, <<r, c>>)

\* The same resolution on the worksheets whose ranges are pairwise
\* disjoint: there the constructor does resolve every coordinate so.
ResolvesToTopLeftOnDisjointRanges ==
    ~RangesOverlap(sheet.ranges) => C3_MergedCoordinateResolvesToTopLeft

\* A built grid with disjoint ranges, one of them of several rows and
\* columns, whose covered cells hold the top-left value.
DisjointRangesResolved ==
    /\ pc = "parsed"
    /\ Len(sheet.ranges) = 2
    /\ ~RangesOverlap(sheet.ranges)
    /\ \E n \in 1..2 : Cardinality(RangeCoords(sheet.ranges[n])) >= 4

\* C4: constructing the grid from a worksheet with two merge ranges that
\* share a coordinate fails: no grid is ever built from it.
C4_OverlappingRangesRejected ==
    RangesOverlap(sheet.ranges) => pc # "parsed"

(***************************************************************************)
(* Properties of the row classifier (specification SpecClassify).          *)
(***************************************************************************)
\* The non-empty cells of the classified row that no merge covers, and
\* the stripped text of the first one.
CallCells == GetNonEmptyCells(call.row, TRUE)

CallText == Strip(CallCells[1].value)

\* The conditions of rules 1 to 4 on the arguments of the call.
TitleRuleMatches ==
    /\ InTitleWindow(call.row.row_idx, call.prev)
    /\ IsLikeTitle(call.row, CallText)

FooterRuleMatches ==
    /\ InFooterWindow(call.row.row_idx, call.total_rows)
    /\ IsLikeFooter(call.row, Lower(CallText))

SectionHeaderRuleMatches ==
    /\ CallCells[1].column = call.min_col
    /\ IsLikeSectionHeader(call.row, Upper(CallText), Lower(CallText))

TableRowRuleMatches ==
    TableRowOrParagraph(CallCells, call.prev) = "table_row"

\* C5: the classifier returns exactly one of the six tags, the one of the
\* first rule that matches in the order empty, title, footer,
\* section_header, table_row; a row that matches none is paragraph_line.
C5_FirstMatchingRuleWins ==
    pc = "returned" =>
        /\ ret \in Tags
        /\ IF RowIsEmpty(call.row, TRUE) THEN ret = "empty"
           ELSE /\ ret # "empty"
                /\ TitleRuleMatches => ret = "title"
                /\ (~TitleRuleMatches /\ FooterRuleMatches) => ret = "footer"
                /\ (/\ ~TitleRuleMatches
                    /\ ~FooterRuleMatches
                    /\ SectionHeaderRuleMatches) => ret = "section_header"
                /\ (/\ ~TitleRuleMatches
                    /\ ~FooterRuleMatches
                    /\ ~SectionHeaderRuleMatches
                    /\ TableRowRuleMatches) => ret = "table_row"
                /\ (/\ ~TitleRuleMatches
                    /\ ~FooterRuleMatches
                    /\ ~SectionHeaderRuleMatches
                    /\ ~TableRowRuleMatches) => ret = "paragraph_line"

\* A call on a row that matches the footer rule, the section-header rule
\* and the table-row rule at once, and returned footer.
C5_Witness ==
    /\ pc = "returned"
    /\ ~RowIsEmpty(call.row, TRUE)
    /\ ~TitleRuleMatches
    /\ FooterRuleMatches
    /\ SectionHeaderRuleMatches
    /\ TableRowRuleMatches
    /\ ret = "footer"

\* C7: a row of index at most 3 with no earlier classification, whose
\* first non-empty cell has a text longer than 15 characters and spans at
\* least half of the row's columns (exactly half included), is title.
C7_LongHalfWidthCellIsTitle ==
    (/\ pc = "returned"
     /\ ~RowIsEmpty(call.row, TRUE)
     /\ call.row.row_idx <= 3
     /\ call.prev = None
     /\ Len(CallText) > 15
     /\ 2 * CallCells[1].colspan >= Len(call.row.cells))
    => ret = "title"

\* C8: a row is classified footer only if its 1-based index is greater
\* than the number of rows minus 5, that is among the last five rows.
C8_FooterOnlyInLastFiveRows ==
    (pc = "returned" /\ ret = "footer")
    => call.row.row_idx > call.total_rows - 5

\* C9: the footer rule counts the non-empty cells without the cells a
\* merge covers: a row among the last five whose only such cell holds a
\* footer keyword, and which is no title, is footer, merged or not.
C9_FooterCountIgnoresCoveredCells ==
    (/\ pc = "returned"
     /\ ~RowIsEmpty(call.row, TRUE)
     /\ ~TitleRuleMatches
     /\ call.row.row_idx > call.total_rows - 5
     /\ Len(CallCells) = 1
     /\ ContainsAny(Lower(CallText), FOOTER_KEYWORDS_LOWER))
    => ret = "footer"

\* None of the title, footer and section-header rules matches the call.
NoEarlierRuleMatches ==
    /\ ~RowIsEmpty(call.row, TRUE)
    /\ ~TitleRuleMatches
    /\ ~FooterRuleMatches
    /\ ~SectionHeaderRuleMatches

\* C11: the table-row rule is overridden to paragraph_line only when the
\* single non-empty cell spans more than half of the row's columns; a
\* single merged cell of more than 10 words that spans more than one
\* column but at most half of the columns is table_row.
C11_OverrideNeedsMoreThanHalfSpan ==
    (/\ pc = "returned"
     /\ NoEarlierRuleMatches
     /\ Len(CallCells) = 1
     /\ CallCells[1].colspan > 1
     /\ WordCount(CallText) > 10
     /\ 2 * CallCells[1].colspan <= Len(call.row.cells))
    => ret = "table_row"

\* C12: continuation bias.  A non-empty row that matches none of the
\* title, footer and section-header rules and whose previous
\* classification is table_row or section_header is table_row, whatever
\* its cell count, span, border or text length.
C12_ContinuationIsTableRow ==
    (/\ pc = "returned"
     /\ NoEarlierRuleMatches
     /\ call.prev \in {"table_row", "section_header"})
    => ret = "table_row"

\* A call after a table row on a row of one unmerged, unbordered cell of
\* more than 10 words, which returned table_row.
C12_Witness ==
    /\ pc = "returned"
    /\ NoEarlierRuleMatches
    /\ call.prev = "table_row"
    /\ Len(CallCells) = 1
    /\ CallCells[1].colspan = 1
    /\ ~CallCells[1].border
    /\ WordCount(CallText) > 10
    /\ ret = "table_row"

(***************************************************************************)
(* A second evaluation of the classifier (specification SpecAgain): after  *)
(* convert has run, the same converter classifies one of the rows again,   *)
(* with the arguments of the first evaluation.                             *)
(***************************************************************************)
\* Rows of the grids of this specification.
AgainRows == 3

\* last_classification when row i was reached: the tag of the last row
\* before it that was not empty (converter_core.py:585-587).
RECURSIVE PrevAt(_)
PrevAt(i) ==
    IF i = 1 THEN None
    ELSE IF tags[i - 1] # "empty" THEN tags[i - 1]
    ELSE PrevAt(i - 1)

\* self._classify_row(row, prev) called once more on the converter that
\* has finished convert.
ClassifyAgain ==
    /\ pc = "done"
    /\ \E i \in 1..Len(rows) :
           /\ call' = [row |-> rows[i], prev |-> PrevAt(i),
                       total_rows |-> Len(rows), min_col |-> sheet.min_column]
           /\ ret' = ClassifyRow(rows[i], PrevAt(i), Len(rows),
                                 sheet.min_column)
    /\ pc' = "returned"
    /\ UNCHANGED <<sheet, merged_cells_map, rows, images, row_ptr,
                   current_table_rows, current_paragraph_lines,
                   last_classification, title_image_tag, images_used,
                   content_elements, tags,
                   output_file, job_updates, conversion_jobs>>

InitAgain ==
    /\ sheet \in {GridOf(kinds) :
                    kinds \in UNION {[1..n -> RowKinds] : n \in 1..AgainRows}}
    /\ images = <<>>
    /\ pc = "raw"
    /\ InitLocals
    /\ call = NoCall
    /\ ret = None

NextAgain ==
    Construct \/ ConvertStart \/ ConvertRow \/ ConvertFinish \/ ClassifyAgain

SpecAgain == InitAgain /\ [][NextAgain]_vars

TableRows == 3

TableCols == 2

\* Every rectangle of more than one cell of such a worksheet.
TableRanges ==
    {rng \in {Range(r1, c1, r2, c2) :
                 r1 \in 1..TableRows, r2 \in 1..TableRows,
                 c1 \in 1..TableCols, c2 \in 1..TableCols} :
        /\ rng.min_row <= rng.max_row
        /\ rng.min_col <= rng.max_col
        /\ (rng.min_row < rng.max_row \/ rng.min_col < rng.max_col)}

\* Merge lists: no range, one range, or two ranges in either order
\* (two ranges may share cells: the constructor accepts that).
TableRangeLists ==
    {<<>>} \cup {<<a>> : a \in TableRanges}
           \cup {<<a, b>> : a \in TableRanges, b \in TableRanges}

\* Row contents: a bold heading row, a row of numbers, and a row with a
\* number in column 1 only.
TableRowKinds ==
    {[first |-> RawCell(TxtSize, TRUE, TRUE),
      other |-> RawCell(TxtSize, TRUE, TRUE)],
     [first |-> RawCell(TxtNum, FALSE, TRUE),
      other |-> RawCell(TxtNum, FALSE, TRUE)],
     [first |-> RawCell(TxtNum, FALSE, TRUE),
      other |-> RawCell(NoValue, FALSE, TRUE)]}

\* The worksheet of the given row kinds and ranges; a MergedCell (every
\* cell of a range but its top-left one) has no value of its own.
TableSheet(kinds, ranges) ==
    Worksheet([r \in 1..Len(kinds) |->
                  [c \in 1..TableCols |->
                      LET raw == IF c = 1 THEN kinds[r].first
                                 ELSE kinds[r].other
                      IN  IF <<r, c>> \in MergedCellCoords(ranges)
                          THEN RawCell(NoValue, raw.bold, raw.border)
                          ELSE raw]],
              ranges)

TableSheetPool ==
    {TableSheet(kinds, ranges) :
        kinds \in [1..TableRows -> TableRowKinds],
        ranges \in TableRangeLists}

\* self._create_table_element(table_rows_data) on the rows from `first`
\* to the last one; a table buffer holds non-empty rows only.
CreateTableCall ==
    /\ pc = "parsed"
    /\ \E first \in 1..Min(2, Len(rows)) :
           /\ \A r \in first..Len(rows) : ~RowIsEmpty(rows[r], TRUE)
           /\ call' = [table_rows_data |-> SubSeq(rows, first, Len(rows))]
           /\ ret' = CreateTableElement(SubSeq(rows, first, Len(rows)))
    /\ pc' = "built"
    /\ UNCHANGED <<sheet, merged_cells_map, rows, images, row_ptr,
                   current_table_rows, current_paragraph_lines,
                   last_classification, title_image_tag, images_used,
                   content_elements, tags,
                   output_file, job_updates, conversion_jobs>>

InitTable ==
    /\ sheet \in TableSheetPool
    /\ images = <<>>
    /\ pc = "raw"
    /\ InitLocals
    /\ call = NoCall
    /\ ret = None

NextTable == Construct \/ CreateTableCall

SpecTable == InitTable /\ [][NextTable]_vars

\* C14: the rows _create_table_element renders, header rows plus body
\* rows, are never more than the rows of the block it was given.
C14_RenderedRowsWithinBlock ==
    pc = "built" =>
        Len(ret.thead) + Len(ret.tbody) <= Len(call.table_rows_data)

\* A block with a header row and body rows, every one of them rendered.
C14_Witness ==
    /\ pc = "built"
    /\ Len(ret.thead) >= 1
    /\ Len(ret.tbody) >= 1
    /\ Len(ret.thead) + Len(ret.tbody) = Len(call.table_rows_data)

\* How many <th>/<td> of the sections trs carry the coordinate.
TimesIn(trs, coordinate) ==
    Cardinality({<<i, j>> \in (1..Len(trs)) \X (1..TableCols) :
                    /\ j <= Len(trs[i].cells)
                    /\ trs[i].cells[j].coordinate = coordinate})

TimesRendered(coordinate) ==
    TimesIn(ret.thead, coordinate) + TimesIn(ret.tbody, coordinate)

\* Every cell of the block up to the block's last data column is rendered
\* once when it is unmerged or owns its merge, and never when it is
\* covered by a merge it does not own.
CellsRenderedOnce ==
    \A r \in 1..Len(call.table_rows_data) :
        \A c \in 1..Len(call.table_rows_data[r].cells) :
            LET cell == call.table_rows_data[r].cells[c]
            IN  cell.column <= MaxColIndex(call.table_rows_data) =>
                    TimesRendered(cell.coordinate) =
                        IF IsMergeCovered(cell) THEN 0 ELSE 1

CellsRenderedOnceOnDisjointRanges ==
    (pc = "built" /\ ~RangesOverlap(sheet.ranges)) => CellsRenderedOnce

\* A merge over three rows of column 1 is rendered as one cell of
\* rowspan 3.
RowspanThreeRendered ==
    /\ pc = "built"
    /\ ~RangesOverlap(sheet.ranges)
    /\ \E i \in 1..Len(ret.tbody) :
           /\ ret.tbody[i].cells # <<>>
           /\ ret.tbody[i].cells[1].rowspan = 3
           /\ ret.tbody[i].cells[1].coordinate[2] = 1

\* C16: a body row starts with its one row-header cell and goes on with
\* plain data cells; a header row holds header cells only.
C16_RowHeaderFirstThenData ==
    pc = "built" =>
        /\ \A i \in 1..Len(ret.tbody) :
               /\ ret.tbody[i].cells # <<>>
               /\ ret.tbody[i].cells[1].name = "th"
               /\ ret.tbody[i].cells[1].scope_row
               /\ \A j \in 2..Len(ret.tbody[i].cells) :
                      /\ ret.tbody[i].cells[j].name = "td"
                      /\ ~ret.tbody[i].cells[j].scope_row
        /\ \A i \in 1..Len(ret.thead) :
               \A j \in 1..Len(ret.thead[i].cells) :
                   /\ ret.thead[i].cells[j].name = "th"
                   /\ ~ret.thead[i].cells[j].scope_row

\* A bold row of two cells followed by two rows of two numbers: the
\* header section has one row of two header cells, the body two rows of
\* a row header and a data cell.
C16_Witness ==
    /\ pc = "built"
    /\ sheet.ranges = <<>>
    /\ Len(ret.thead) = 1
    /\ Len(ret.thead[1].cells) = 2
    /\ Len(ret.tbody) = 2
    /\ \A i \in 1..2 : Len(ret.tbody[i].cells) = 2

(***************************************************************************)
(* The forward pass with image anchors (specification SpecImages).         *)
(***************************************************************************)
\* Rows of the worksheets below the leading empty rows, leading empty rows
\* of the tall worksheets, and anchors of one worksheet.
ImageRows == 3

LeadRows == 5

MaxImages == 2

\* Row kinds: title, row of numbers, prose, empty row.
ImageRowKinds ==
    {k \in RowKinds :
        k.first.value \in {TxtLongTitle, TxtNum, TxtProse, NoValue}}

EmptyRowKind == CHOOSE k \in RowKinds : k.first.value = NoValue

\* Worksheets of up to ImageRows rows, and the same below LeadRows empty
\* rows.
ImageGridPool ==
    {GridOf(lead \o kinds) :
        lead \in {<<>>, [r \in 1..LeadRows |-> EmptyRowKind]},
        kinds \in UNION {[1..n -> ImageRowKinds] : n \in 1..ImageRows}}

\* The path extract_images gives the n-th image it saves: the counter
\* makes it unique (converter_core.py:178-183).
ImagePath(n) == <<"outputs/1/images/image_1_", n, ".png">>

\* sheet_data.images after extract_images: anchors on the rows from
\* `lead` + 1 on.  Only the order of the anchors of one row is ever read,
\* so the lists are drawn with their rows in ascending order.
AnchorLists(lead) ==
    {[n \in 1..Len(anchor_rows) |->
         [row |-> lead + anchor_rows[n], col |-> 1, path |-> ImagePath(n)]] :
        anchor_rows \in
            {a \in UNION {[1..n -> 1..ImageRows] : n \in 0..MaxImages} :
                \A n \in 1..(Len(a) - 1) : a[n] <= a[n + 1]}}

InitImages ==
    /\ sheet \in ImageGridPool
    /\ images \in IF sheet.max_row <= ImageRows THEN AnchorLists(0)
                  ELSE AnchorLists(LeadRows)
    /\ \A n \in 1..Len(images) : images[n].row <= sheet.max_row
    /\ pc = "raw"
    /\ InitLocals
    /\ call = NoCall
    /\ ret = None

\* The run of the markup conversion on a worksheet with images.
SpecImages == InitImages /\ [][Next]_vars

\* The positions of content_elements that hold the image of the path.
PlacesOf(path) ==
    {p \in 1..Len(content_elements) :
        /\ content_elements[p].tag = "img.excel-image"
        /\ content_elements[p].src = path}

\* C17: at every moment of the conversion each image path is placed in
\* the output at most once, whatever the anchors: several on one row, or
\* one taken as the title image.
C17_AssetPlacedAtMostOnce ==
    \A n \in 1..Len(images) : Cardinality(PlacesOf(images[n].path)) <= 1

\* Two anchors on one row, the first taken as title image and placed
\* after the title, the second placed too.
C17_Witness ==
    /\ pc = "done"
    /\ Len(images) = 2
    /\ images[1].row = images[2].row
    /\ title_image_tag # NoElement
    /\ PlacesOf(title_image_tag.src) # {}
    /\ PlacesOf(images[2].path) # {}

\* The position p comes right after the title: only images lie between
\* the <h1> and p.
RightAfterTitle(p) ==
    \E t \in 1..(p - 1) :
        /\ content_elements[t].tag = "h1.cable-title"
        /\ \A q \in (t + 1)..(p - 1) :
               content_elements[q].tag = "img.excel-image"

\* The anchor is on one of the first 5 rows and no row before it is a
\* title: it is reached before a title is placed.
ReachedBeforeTitle(anchor) ==
    /\ anchor.row <= Min(5, Len(rows))
    /\ \A r \in 1..(anchor.row - 1) : tags[r] # "title"

TitlePlaced ==
    \E t \in 1..Len(content_elements) :
        content_elements[t].tag = "h1.cable-title"

HeldBackUntilTitle(anchor) ==
    /\ \A p \in PlacesOf(anchor.path) : RightAfterTitle(p)
    /\ TitlePlaced => PlacesOf(anchor.path) # {}

\* C18: when the conversion is over, every image anchored on one of the
\* first 5 rows and reached before a title was placed is nowhere but
\* right after the title, and is there when a title was placed.
C18_EarlyAssetsFollowTitle ==
    pc = "done" =>
        \A n \in 1..Len(images) :
            ReachedBeforeTitle(images[n]) => HeldBackUntilTitle(images[n])

\* The same for worksheets with one anchor.
SingleEarlyAssetFollowsTitle ==
    (pc = "done" /\ Len(images) = 1 /\ ReachedBeforeTitle(images[1]))
        => HeldBackUntilTitle(images[1])

\* The anchor is held back neither by the rule of the first 5 rows nor as
\* the title image of the run, and its row is a row of a block.
InlineAnchor(anchor) ==
    /\ ~ReachedBeforeTitle(anchor)
    /\ (title_image_tag # NoElement => title_image_tag.src # anchor.path)
    /\ anchor.row <= Len(rows)
    /\ tags[anchor.row] # "empty"

\* The image is placed, and the next element that is not an image is the
\* element of the block the anchor row belongs to.
PlacedRightBeforeItsBlock(anchor) ==
    \E p \in PlacesOf(anchor.path) :
        \E b \in (p + 1)..Len(content_elements) :
            /\ content_elements[b].tag # "img.excel-image"
            /\ \E i \in 1..Len(content_elements[b].rows) :
                   content_elements[b].rows[i] = anchor.row
            /\ \A q \in (p + 1)..(b - 1) :
                   content_elements[q].tag = "img.excel-image"

\* C19: when the conversion is over, every image that was not held back
\* and is anchored on a row of a block stands right before the element of
\* that block, also when the row is in the middle of the block.
C19_AssetRightBeforeItsBlock ==
    pc = "done" =>
        \A n \in 1..Len(images) :
            InlineAnchor(images[n]) => PlacedRightBeforeItsBlock(images[n])

\* The same for the anchors that share their row with no other anchor.
LoneAssetRightBeforeItsBlock ==
    pc = "done" =>
        \A n \in 1..Len(images) :
            (/\ InlineAnchor(images[n])
             /\ \A m \in 1..Len(images) :
                    m # n => images[m].row # images[n].row)
                => PlacedRightBeforeItsBlock(images[n])

\* An image anchored on the second row of a table of two rows or more,
\* placed right before the table.
MidBlockAssetPlaced ==
    /\ pc = "done"
    /\ \E n \in 1..Len(images) :
           /\ InlineAnchor(images[n])
           /\ PlacedRightBeforeItsBlock(images[n])
           /\ images[n].row > 1
           /\ tags[images[n].row] = "table_row"
           /\ tags[images[n].row - 1] = "table_row"

(***************************************************************************)
(* The tabular exporter next to the markup pass (specification SpecSql):   *)
(* SqlConverter.convert collects the rows of the target section of the     *)
(* sheet data the markup pass has run on.  It reads rows and sheet only.   *)
(***************************************************************************)
\* target_section of SqlConverter.convert: its default.
TargetSection == TxtDimensions

\* The collection loop of SqlConverter.convert (converter_core.py:608-617)
\* from row n on: target_table_rows when the loop ends.  Every row is
\* classified with 'start' as its previous classification.
RECURSIVE CollectTargetRows(_, _, _)
RECURSIVE CollectRow(_, _, _, _)
CollectRow(n, in_target_section, target_table_rows, classification) ==
    IF classification = "section_header"
    THEN IF Contains(Upper(Strip(Str(rows[n].cells[1].value))),
                     Upper(TargetSection))
         THEN CollectTargetRows(n + 1, TRUE, target_table_rows)
         ELSE IF in_target_section THEN target_table_rows
         ELSE CollectTargetRows(n + 1, in_target_section, target_table_rows)
    ELSE IF in_target_section /\ classification = "table_row"
    THEN CollectTargetRows(n + 1, in_target_section,
                           Append(target_table_rows, rows[n]))
    ELSE IF in_target_section /\ classification \notin {"table_row", "empty"}
    THEN target_table_rows
    ELSE CollectTargetRows(n + 1, in_target_section, target_table_rows)

CollectTargetRows(n, in_target_section, target_table_rows) ==
    IF n > Len(rows) THEN target_table_rows
    ELSE CollectRow(n, in_target_section, target_table_rows,
                    ClassifyRow(rows[n], "start", Len(rows),
                                sheet.min_column))

\* SqlConverter.convert up to the collected rows, on the sheet data of a
\* finished markup conversion.
SqlCollect ==
    /\ pc = "done"
    /\ ret' = CollectTargetRows(1, FALSE, <<>>)
    /\ pc' = "collected"
    /\ UNCHANGED <<sheet, merged_cells_map, rows, images, row_ptr,
                   current_table_rows, current_paragraph_lines,
                   last_classification, title_image_tag, images_used,
                   content_elements, tags, call,
                   output_file, job_updates, conversion_jobs>>

NextSql == Construct \/ ConvertStart \/ ConvertRow \/ ConvertFinish \/ SqlCollect

\* Both converters on one worksheet of up to AgainRows rows.
SpecSql == InitAgain /\ [][NextSql]_vars

\* The positions of the section headers of the output whose text holds
\* the target label.
TargetHeaderPlaces ==
    {t \in 1..Len(content_elements) :
        /\ content_elements[t].tag = "h2.section-header"
        /\ Contains(Upper(content_elements[t].children[1]),
                    Upper(TargetSection))}

\* The rows of the tables that follow the first such header with nothing
\* but tables in between.
TablesAfterTargetHeader ==
    IF TargetHeaderPlaces = {} THEN {}
    ELSE LET t == CHOOSE h \in TargetHeaderPlaces :
                      \A k \in TargetHeaderPlaces : h <= k
         IN  {content_elements[b].rows[i] :
                 <<b, i>> \in
                     {<<b, i>> \in ((t + 1)..Len(content_elements))
                                       \X (1..AgainRows) :
                         /\ i <= Len(content_elements[b].rows)
                         /\ \A q \in (t + 1)..b :
                                content_elements[q].tag
                                    = "div.table-responsive"}}

CollectedRows == {ret[i].row_idx : i \in 1..Len(ret)}

\* C20: the rows the tabular exporter collects are exactly the rows of
\* the tables the markup pass emits directly after the section header
\* with the target label.
C20_ExporterCollectsTheTableBlocks ==
    pc = "collected" => CollectedRows = TablesAfterTargetHeader

\* The exporter collects no row outside those tables.
CollectedWithinTableBlocks ==
    pc = "collected" => CollectedRows \subseteq TablesAfterTargetHeader

\* Both agree on a header followed by rows of numbers.
ExporterAgreesOnNumberRows ==
    /\ pc = "collected"
    /\ Len(ret) >= 2
    /\ CollectedRows = TablesAfterTargetHeader

(***************************************************************************)
(* SqlConverter.convert as a whole (specification SpecExport).             *)
(***************************************************************************)
\* 'Cable Size (mm²)': a column label with blanks, brackets and a
\* character outside ASCII.
TxtCableSize ==
    <<"C", "a", "b", "l", "e", " ", "S", "i", "z", "e", " ", "(", "m", "m",
      "²", ")">>
\* '-': a label without any letter or digit.
TxtDash ==
    <<"-">>

\* A value a function returns.
Returned(output) == [raised |-> None, output |-> output]

\* An exception that leaves the function.
Raised(exception) == [raised |-> exception, output |-> <<>>]

\* 0-based index of the first collected row with a non-empty cell, -1
\* when there is none (converter_core.py:619-621).
SqlHeaderIndex(target_table_rows) ==
    LET found == {i \in 1..Len(target_table_rows) :
                     GetNonEmptyCells(target_table_rows[i], FALSE) # <<>>}
    IN  IF found = {} THEN -1
        ELSE (CHOOSE i \in found : \A j \in found : i <= j) - 1

\* max_col_sql (converter_core.py:623-624)
MaxColSql(target_table_rows) ==
    LET lasts == {GetLastDataColumnIndex(target_table_rows[i]) :
                  i \in 1..Len(target_table_rows)} \cup {0}
    IN  CHOOSE m \in lasts : \A e \in lasts : m >= e

\* headers_raw (converter_core.py:625-628): the values of the cells of the
\* header row up to max_col_sql that no merge covers.
HeadersRaw(header_row_data, max_col_sql) ==
    LET kept == SelectCells(header_row_data.cells,
                            {i \in 1..Len(header_row_data.cells) :
                                /\ header_row_data.cells[i].column
                                       <= max_col_sql
                                /\ ~IsMergeCovered(header_row_data.cells[i])})
    IN  [i \in 1..Len(kept) |-> kept[i].value]

\* re.sub(r'\s+', '_', text): every maximal run of whitespace becomes one
\* underscore.
RECURSIVE CollapseWhitespace(_)
CollapseWhitespace(text) ==
    IF text = <<>> THEN <<>>
    ELSE IF text[1] \in Whitespace
    THEN <<"_">> \o CollapseWhitespace(SubSeq(text,
                                               SkipWhile(text, 1, Whitespace),
                                               Len(text)))
    ELSE <<text[1]>> \o CollapseWhitespace(Tail(text))

\* The characters of [a-zA-Z0-9_].
IdentifierChars ==
    {LowerLetters[i] : i \in 1..Len(LowerLetters)}
    \cup {UpperLetters[i] : i \in 1..Len(UpperLetters)}
    \cup Digits \cup {"_"}

\* The statements of line 630 that would bind `s`:
\* re.sub(r'[^a-zA-Z0-9_]', '', re.sub(r'\s+', '_', str(h)).strip()).lower()
SanitizeHeader(h) ==
    Lower(SelectSeq(Strip(CollapseWhitespace(Str(h))),
                    LAMBDA ch : ch \in IdentifierChars))

\* The header loop and the test that follows it (converter_core.py:629-632).
\* The statements that bind `s` on line 630 stand after `continue` in the
\* suite of `if h is None`, so they never run: on the first header that
\* is not None, `if s:` on line 631 reads the unbound local s.  When every
\* header is None the list of headers is empty.
SqlHeaders(headers_raw) ==
    IF \E i \in 1..Len(headers_raw) : headers_raw[i] # NoValue
    THEN Raised("UnboundLocalError")
    ELSE Returned(<<"-- No valid headers.\n">>)

\* SqlConverter.convert from the collected rows on
\* (converter_core.py:618-632).
SqlFromRows(target_table_rows, header_index) ==
    IF target_table_rows = <<>>
    THEN Returned(<<"-- No table data for ">> \o TargetSection \o <<".\n">>)
    ELSE IF header_index < 0 THEN Returned(<<"-- No header row.\n">>)
    ELSE SqlHeaders(HeadersRaw(target_table_rows[header_index + 1],
                               MaxColSql(target_table_rows)))

\* SqlConverter.convert
SqlConvert(target_table_rows) ==
    SqlFromRows(target_table_rows, SqlHeaderIndex(target_table_rows))

\* One call of SqlConverter(sheet_data, job_id).convert().
SqlConvertCall ==
    /\ pc = "parsed"
    /\ call' = [target_table_rows |-> CollectTargetRows(1, FALSE, <<>>)]
    /\ ret' = SqlConvert(CollectTargetRows(1, FALSE, <<>>))
    /\ pc' = "exported"
    /\ UNCHANGED <<sheet, merged_cells_map, rows, images, row_ptr,
                   current_table_rows, current_paragraph_lines,
                   last_classification, title_image_tag, images_used,
                   content_elements, tags,
                   output_file, job_updates, conversion_jobs>>

\* Rows of the worksheets of this specification.
ExportRows == 3

\* Row kinds: the DIMENSIONS header, a row of column labels, a row of
\* numbers, a row of numbers after an empty first cell, a row of dashes,
\* prose in one cell, an empty row.
ExportRowKinds ==
    {k \in RowKinds : k.first.value \in {TxtDimensions, TxtProse, NoValue}}
    \cup
    {[first |-> RawCell(TxtCableSize, TRUE, TRUE),
      other |-> RawCell(TxtSize, TRUE, TRUE),
      across |-> FALSE, down |-> FALSE],
     [first |-> RawCell(TxtNum, FALSE, TRUE),
      other |-> RawCell(TxtNum, FALSE, TRUE),
      across |-> FALSE, down |-> FALSE],
     [first |-> Blank,
      other |-> RawCell(TxtNum, FALSE, TRUE),
      across |-> FALSE, down |-> FALSE],
     [first |-> RawCell(TxtDash, FALSE, TRUE),
      other |-> RawCell(TxtDash, FALSE, TRUE),
      across |-> FALSE, down |-> FALSE]}

InitExport ==
    /\ sheet \in {GridOf(kinds) :
                     kinds \in UNION {[1..n -> ExportRowKinds] :
                                      n \in 1..ExportRows}}
    /\ images = <<>>
    /\ pc = "raw"
    /\ InitLocals
    /\ call = NoCall
    /\ ret = None

NextExport == Construct \/ SqlConvertCall

SpecExport == InitExport /\ [][NextExport]_vars

\* The first collected row: the row the column identifiers come from.
ExportHeaderRow == call.target_table_rows[1]

CableSizeMm ==
    <<"c", "a", "b", "l", "e", "_", "s", "i", "z", "e", "_", "m", "m">>

\* C21: the header text 'Cable Size (mm²)' is sanitised to cable_size_mm,
\* and the export of a section whose header row starts with that text
\* returns, without raising, an output that holds that identifier.
C21_SanitizedHeaderIsAColumn ==
    (/\ pc = "exported"
     /\ call.target_table_rows # <<>>
     /\ ExportHeaderRow.cells[1].value = TxtCableSize)
        => /\ SanitizeHeader(TxtCableSize) = CableSizeMm
           /\ ret.raised = None
           /\ \E i \in 1..Len(ret.output) : ret.output[i] = CableSizeMm

\* The statements of line 630, had they run, give the identifier.
SanitizerGivesCableSizeMm ==
    pc = "exported" => SanitizeHeader(TxtCableSize) = CableSizeMm

\* The header values of the export and whether one of them sanitises to
\* an identifier that is not empty.
ExportHeadersRaw ==
    HeadersRaw(ExportHeaderRow, MaxColSql(call.target_table_rows))

HasValidIdentifier ==
    \E i \in 1..Len(ExportHeadersRaw) :
        /\ ExportHeadersRaw[i] # NoValue
        /\ SanitizeHeader(ExportHeadersRaw[i]) # <<>>

\* The output is one of the "no data" markers of convert.
IsNoDataMarker(output) ==
    /\ output # <<>>
    /\ output[1] \in {"-- No table data for ", "-- No header row.\n",
                      "-- No valid headers.\n"}

\* C22: when the target section has a header row with a valid column
\* identifier, convert returns its statements (the schema definition
\* followed by the insertions): it does not raise and does not return a
\* "no data" marker.
C22_StatementsReturned ==
    (/\ pc = "exported"
     /\ call.target_table_rows # <<>>
     /\ HasValidIdentifier)
        => (ret.raised = None /\ ~IsNoDataMarker(ret.output))

\* Some row is a section header, as the exporter classifies it, whose
\* text holds the target label.
TargetSectionFound ==
    \E n \in 1..Len(rows) :
        /\ ClassifyRow(rows[n], "start", Len(rows), sheet.min_column)
               = "section_header"
        /\ Contains(Upper(Strip(Str(rows[n].cells[1].value))),
                    Upper(TargetSection))

\* C24: when the target section is found and has no header row, or its
\* header row gives no valid column identifier, convert returns a "no
\* data" marker and raises nothing.
C24_NoDataMarkerInsteadOfFailure ==
    (/\ pc = "exported"
     /\ TargetSectionFound
     /\ (call.target_table_rows = <<>> \/ ~HasValidIdentifier))
        => (ret.raised = None /\ IsNoDataMarker(ret.output))

\* The part of C24 about a section without any collected row.
MarkerWhenNoRowCollected ==
    (pc = "exported" /\ TargetSectionFound /\ call.target_table_rows = <<>>)
        => (ret.raised = None /\ IsNoDataMarker(ret.output))

\* A found section without rows, answered by the marker.
SectionWithoutRowsReached ==
    /\ pc = "exported"
    /\ TargetSectionFound
    /\ call.target_table_rows = <<>>
    /\ IsNoDataMarker(ret.output)

(***************************************************************************)
(* The batching of the insertions (specification SpecBatch): the loop      *)
(* "Combine inserts" of process_excel_to_sql (1-converter_core.py:536-541),*)
(* which converter_core.py:649-652 repeats with `values` for values_list.  *)
(***************************************************************************)
chunk_size == 100

\* The longest list of values drawn.
MaxValues == 250

\* The loop with the slice values_list[i:i + chunk_size + 1].
RECURSIVE InsertStatementsSlicedOneMore(_, _)
InsertStatementsSlicedOneMore(values_list, i) ==
    IF i >= Len(values_list) THEN <<>>
    ELSE <<SubSeq(values_list, i + 1,
                  Min(i + chunk_size + 1, Len(values_list)))>>
         \o InsertStatementsSlicedOneMore(values_list, i + chunk_size)

\* `for i in range(0, len(values_list), chunk_size)` from offset i on: the
\* chunks of the statements appended, one statement for each chunk that
\* is not empty.
RECURSIVE InsertStatements(_, _)
InsertStatements(values_list, i) ==
    IF i >= Len(values_list) THEN <<>>
    ELSE (IF SubSeq(values_list, i + 1,
                    Min(i + chunk_size, Len(values_list))) # <<>>
          THEN <<SubSeq(values_list, i + 1,
                        Min(i + chunk_size, Len(values_list)))>>
          ELSE <<>>)
         \o InsertStatements(values_list, i + chunk_size)

\* The loop on the values drawn.
EmitInserts ==
    /\ pc = "values"
    /\ ret' = InsertStatements(call.values_list, 0)
    /\ pc' = "emitted"
    /\ UNCHANGED <<sheet, merged_cells_map, rows, images, row_ptr,
                   current_table_rows, current_paragraph_lines,
                   last_classification, title_image_tag, images_used,
                   content_elements, tags, call,
                   output_file, job_updates, conversion_jobs>>

\* values_list before the loop: one value tuple for each data row, here
\* the number of the row it was made from.
InitBatch ==
    /\ \E n \in 0..MaxValues : call = [values_list |-> [k \in 1..n |-> k]]
    /\ sheet = Worksheet(<<>>, <<>>)
    /\ images = <<>>
    /\ pc = "values"
    /\ InitLocals
    /\ ret = None

SpecBatch == InitBatch /\ [][EmitInserts]_vars

\* The statements' chunks one after the other.
RECURSIVE Concatenation(_)
Concatenation(chunks) ==
    IF chunks = <<>> THEN <<>>
    ELSE chunks[1] \o Concatenation(Tail(chunks))

\* C23: every insertion statement carries at most 100 rows, every
\* statement but the last exactly 100, and the statements one after the
\* other carry the data rows in their order, none lost, none twice.
C23_BatchesOfOneHundred ==
    pc = "emitted" =>
        /\ \A n \in 1..Len(ret) : Len(ret[n]) \in 1..100
        /\ \A n \in 1..(Len(ret) - 1) : Len(ret[n]) = 100
        /\ Concatenation(ret) = call.values_list

\* Two full statements followed by a shorter one.
C23_Witness ==
    /\ pc = "emitted"
    /\ Len(ret) = 3
    /\ Len(ret[3]) < 100

(***************************************************************************)
(* One run of the script (specification SpecRun): the block under          *)
(* `if __name__ == "__main__"` from its try statement on.  The file system *)
(* and the workbook reader answer each call with success or an exception;  *)
(* a call of update_job_status_db is the signal to the job tracker.        *)
(***************************************************************************)
\* Rows of the worksheets of this specification.
RunRows == 3

\* Lengths of the diagnostic an exception carries (error_message in the
\* handlers): short, longer than 500, longer than 65530.
DiagnosticLengths == {98, 600, 70000}

\* args.job_id (converter_core.py:661), the job of the run.
RunJobId == 1

\* update_job_status_db(job_id, 'completed', args.output_path)
Completed ==
    [status |-> "completed", output_path |-> TRUE, error_len |-> 0]

\* update_job_status_db(job_id, 'failed', error_msg=...): error_msg is cut
\* to 65530 characters (converter_core.py:67).
Failed(error_len) ==
    [status |-> "failed", output_path |-> FALSE,
     error_len |-> Min(error_len, 65530)]

\* `except (FileNotFoundError, ValueError, IOError)`: the message is
\* passed on as it is, and the script exits with 1.
KnownError(error_len) ==
    /\ \E executed \in BOOLEAN :
           UpdateJobStatusDb(RunJobId, Failed(error_len), executed)
    /\ pc' = "exit1"

\* `except Exception`: error_message[:500] is passed on.
UnexpectedError(error_len) ==
    /\ \E executed \in BOOLEAN :
           UpdateJobStatusDb(RunJobId, Failed(Min(error_len, 500)), executed)
    /\ pc' = "exit1"

\* output_content (converter_core.py:685-689): the template around the
\* rendered elements, or what SqlConverter.convert returned.
OutputContent ==
    IF call.format = "html" THEN <<"<!DOCTYPE html>">> \o content_elements
    ELSE ret.output

\* Lines 672-681: the input file is checked and the workbook loaded; a
\* missing file, an empty one, one openpyxl cannot load and a workbook
\* without active sheet raise FileNotFoundError or ValueError.
LoadWorkbook ==
    /\ pc = "start"
    /\ \/ pc' = "raw" /\ UNCHANGED <<job_updates, conversion_jobs>>
       \/ \E error_len \in DiagnosticLengths : KnownError(error_len)
    /\ UNCHANGED <<sheet, merged_cells_map, rows, images, row_ptr,
                   current_table_rows, current_paragraph_lines,
                   last_classification, title_image_tag, images_used,
                   content_elements, tags, call, ret, output_file>>

\* Line 683: extract_images raises when the image directory cannot be
\* made (its mkdir on line 172 is outside its try): an OSError.
ExtractImagesFails ==
    /\ pc = "parsed"
    /\ \E error_len \in DiagnosticLengths : KnownError(error_len)
    /\ UNCHANGED <<sheet, merged_cells_map, rows, images, row_ptr,
                   current_table_rows, current_paragraph_lines,
                   last_classification, title_image_tag, images_used,
                   content_elements, tags, call, ret, output_file>>

\* Lines 686-687: HtmlConverter(sheet_data, job_id).convert()
RunHtml ==
    /\ call.format = "html"
    /\ (ConvertStart \/ ConvertRow \/ ConvertFinish)

\* Lines 688-689: SqlConverter(sheet_data, job_id).convert(...), when it
\* returns and when it raises.
RunSql ==
    /\ pc = "parsed"
    /\ call.format = "sql"
    /\ ret' = SqlConvert(CollectTargetRows(1, FALSE, <<>>))
    /\ \/ /\ SqlConvert(CollectTargetRows(1, FALSE, <<>>)).raised = None
          /\ pc' = "exported"
          /\ UNCHANGED <<job_updates, conversion_jobs>>
       \/ /\ SqlConvert(CollectTargetRows(1, FALSE, <<>>)).raised # None
          /\ \E error_len \in DiagnosticLengths : UnexpectedError(error_len)
    /\ UNCHANGED <<sheet, merged_cells_map, rows, images, row_ptr,
                   current_table_rows, current_paragraph_lines,
                   last_classification, title_image_tag, images_used,
                   content_elements, tags, call, output_file>>

\* Lines 691-695: `if not output_content: raise ValueError` and
\* open(args.output_path, 'w'), which creates the file, empty, or raises.
\* Both converters return text that is not empty, so the run fails here
\* when open raises.
OpenOutput ==
    /\ pc \in {"done", "exported"}
    /\ \/ /\ OutputContent # <<>>
          /\ output_file' = [exists |-> TRUE, content |-> <<>>]
          /\ pc' = "opened"
          /\ UNCHANGED <<job_updates, conversion_jobs>>
       \/ /\ \E error_len \in DiagnosticLengths : KnownError(error_len)
          /\ UNCHANGED output_file
    /\ UNCHANGED <<sheet, merged_cells_map, rows, images, row_ptr,
                   current_table_rows, current_paragraph_lines,
                   last_classification, title_image_tag, images_used,
                   content_elements, tags, call, ret>>

\* Lines 693-697: f.write(output_content) and the close of the file at
\* the end of the with statement, which store the content or raise, with
\* nothing or the beginning of the content stored; the exception is
\* raised again as IOError.  The file is not removed.
WriteOutput ==
    /\ pc = "opened"
    /\ \/ /\ output_file' = [exists |-> TRUE, content |-> OutputContent]
          /\ pc' = "written"
          /\ UNCHANGED <<job_updates, conversion_jobs>>
       \/ /\ \E error_len \in DiagnosticLengths : KnownError(error_len)
          /\ \E stored \in 0..1 :
                output_file' = [exists |-> TRUE,
                                content |-> SubSeq(OutputContent, 1, stored)]
    /\ UNCHANGED <<sheet, merged_cells_map, rows, images, row_ptr,
                   current_table_rows, current_paragraph_lines,
                   last_classification, title_image_tag, images_used,
                   content_elements, tags, call, ret>>

\* Line 703: update_job_status_db(args.job_id, 'completed',
\* args.output_path) and sys.exit(0).
SignalCompleted ==
    /\ pc = "written"
    /\ \E executed \in BOOLEAN :
           UpdateJobStatusDb(RunJobId, Completed, executed)
    /\ pc' = "exit0"
    /\ UNCHANGED <<sheet, merged_cells_map, rows, images, row_ptr,
                   current_table_rows, current_paragraph_lines,
                   last_classification, title_image_tag, images_used,
                   content_elements, tags, call, ret, output_file>>

\* The arguments of the run and the active sheet of the workbook at
\* args.input_path; no file at args.output_path yet.
InitRun ==
    /\ sheet \in {GridOf(kinds) :
                     kinds \in UNION {[1..n -> ExportRowKinds] :
                                      n \in 1..RunRows}}
    /\ call \in {[format |-> f] : f \in {"html", "sql"}}
    /\ images = <<>>
    /\ pc = "start"
    /\ InitLocals
    /\ ret = None

NextRun ==
    \/ LoadWorkbook
    \/ Construct
    \/ ExtractImagesFails
    \/ RunHtml
    \/ RunSql
    \/ OpenOutput
    \/ WriteOutput
    \/ SignalCompleted

SpecRun == InitRun /\ [][NextRun]_vars

\* The run is over: the script has called sys.exit.
RunEnded == pc \in {"exit0", "exit1"}

\* The sheet was read and the export asked for.
ExportAsked == call.format = "sql" /\ rows # <<>>

\* C25: when no section header holds the target label, the run of the
\* export is aborted: no output file is written, no 'completed' signal is
\* sent, and the run ends with the job signalled failed.
C25_MissingSectionFailsTheRun ==
    (ExportAsked /\ ~TargetSectionFound)
        => /\ ~output_file.exists
           /\ \A i \in 1..Len(job_updates) :
                 job_updates[i].status # "completed"
           /\ RunEnded => (Len(job_updates) = 1
                           /\ job_updates[1].status = "failed")

\* What the program does instead: without the target section convert
\* does not raise, and the marker it returns is what the run writes.
MissingSectionGivesMarker ==
    (ExportAsked /\ ~TargetSectionFound /\ pc \in {"opened", "written", "exit0"})
        => (ret.raised = None /\ IsNoDataMarker(ret.output))

\* A run without the target section that wrote the marker and signalled
\* 'completed'.
MarkerWrittenAndCompleted ==
    /\ ExportAsked
    /\ ~TargetSectionFound
    /\ pc = "exit0"
    /\ output_file.content = ret.output
    /\ job_updates = <<Completed>>

\* The output was written: the file holds the whole output_content.
OutputWritten ==
    output_file.exists /\ output_file.content = OutputContent

\* The run ended well: the output written, and one signal, 'completed'
\* with the output location.
EndedCompleted ==
    /\ OutputWritten
    /\ job_updates = <<Completed>>

\* The run ended in failure: no file at the output location, and one
\* signal, 'failed' with a diagnostic of bounded length.
EndedFailed ==
    /\ ~output_file.exists
    /\ Len(job_updates) = 1
    /\ job_updates[1].status = "failed"
    /\ job_updates[1].error_len <= 65530

\* C26: every run that ends has ended in exactly one of the two outcomes
\* (output written and one 'completed' signal with its location, or no
\* output written and one 'failed' signal with a bounded diagnostic); no
\* run sends both signals, nor 'completed' before the output is written.
C26_RunEndsInOneOutcome ==
    /\ RunEnded => (EndedCompleted \/ EndedFailed)
    /\ Len(job_updates) <= 1
    /\ (\E i \in 1..Len(job_updates) : job_updates[i].status = "completed")
           => OutputWritten

\* The part of C26 about the signals: an ended run has sent one signal, a
\* running one none; 'completed' carries the output location and is sent
\* with the output written; 'failed' carries a bounded diagnostic.
OneSignalPerRun ==
    /\ Len(job_updates) = (IF RunEnded THEN 1 ELSE 0)
    /\ pc = "exit0" => EndedCompleted
    /\ pc = "exit1" => /\ job_updates[1].status = "failed"
                       /\ job_updates[1].error_len <= 65530

\* A run that signalled 'failed' and left a file at the output location.
FailedWithFileLeft ==
    /\ pc = "exit1"
    /\ output_file.exists
    /\ job_updates[1].status = "failed"

\* A run that failed without a file, its diagnostic cut to 500 characters.
FailedWithCutDiagnostic ==
    /\ pc = "exit1"
    /\ EndedFailed
    /\ job_updates[1].error_len = 500

(***************************************************************************)
(* The steps of the forward pass: what one iteration of the loop of       *)
(* convert does to the buffers and to the output.                          *)
(***************************************************************************)
\* The classification the next iteration of the loop gives its row.
ClassificationOfNext ==
    ClassifyRow(rows[row_ptr], last_classification, Len(rows),
                sheet.min_column)

\* The next iteration of the loop handles a row of one of the tags.
StepOn(classifications) ==
    /\ pc = "loop"
    /\ row_ptr <= Len(rows)
    /\ ClassificationOfNext \in classifications

\* The Blocks the step appends to the output.
NewBlocks ==
    Blocks(SubSeq(content_elements', Len(content_elements) + 1,
                  Len(content_elements')))

\* The number of open accumulations: 0, 1 or 2.
OpenAccumulations ==
    (IF current_table_rows # <<>> THEN 1 ELSE 0)
    + (IF current_paragraph_lines # <<>> THEN 1 ELSE 0)

\* The step appends one Block per open accumulation, made of the rows of
\* the buffers, and then the Block of the row itself.
AccumulationThenOwnBlock(new) ==
    /\ Len(new) = OpenAccumulations + 1
    /\ SourceRows(SubSeq(new, 1, Len(new) - 1)) = BufferedRows
    /\ \A i \in 1..(Len(new) - 1) :
           new[i].tag \in {"div.table-responsive", "p.section-description"}
    /\ new[Len(new)].rows = <<rows[row_ptr].row_idx>>
    /\ new[Len(new)].tag
           \in {"h1.cable-title", "h2.section-header", "div.footer-text"}

\* C27: the step on a row classified title, section_header or footer
\* emits every open table or paragraph accumulation as a Block, then the
\* Block of the row alone, and leaves both buffers empty.
C27_HeadingFlushesThenEmitsOwnBlock ==
    [][StepOn({"title", "section_header", "footer"})
          => /\ AccumulationThenOwnBlock(NewBlocks)
             /\ current_table_rows' = <<>>
             /\ current_paragraph_lines' = <<>>]_vars

\* A section header that closed an open paragraph: the paragraph is the
\* Block before the heading, and no accumulation is open.
C27_Witness ==
    /\ pc = "loop"
    /\ row_ptr > 2
    /\ tags[row_ptr - 1] = "section_header"
    /\ tags[row_ptr - 2] = "paragraph_line"
    /\ Len(content_elements) >= 2
    /\ content_elements[Len(content_elements)].tag = "h2.section-header"
    /\ content_elements[Len(content_elements) - 1].tag
           = "p.section-description"
    /\ current_table_rows = <<>>
    /\ current_paragraph_lines = <<>>

\* The same for a footer that closed an open table.
FooterClosedTable ==
    /\ pc = "loop"
    /\ row_ptr > 2
    /\ tags[row_ptr - 1] = "footer"
    /\ tags[row_ptr - 2] = "table_row"
    /\ content_elements[Len(content_elements)].tag = "div.footer-text"
    /\ content_elements[Len(content_elements) - 1].tag
           = "div.table-responsive"

\* An empty row was the last row processed.
AfterEmptyRow == pc = "loop" /\ row_ptr > 1 /\ tags[row_ptr - 1] = "empty"

\* C28: after the step on an empty row no accumulation is open, and no
\* earlier classification is carried over: the next row is classified as
\* a row with nothing before it is.
C28_EmptyRowResetsTheState ==
    AfterEmptyRow
        => /\ current_table_rows = <<>>
           /\ current_paragraph_lines = <<>>
           /\ last_classification = None
           /\ row_ptr <= Len(rows)
                  => ClassificationOfNext
                         = ClassifyRow(rows[row_ptr], None, Len(rows),
                                       sheet.min_column)

\* The part of C28 that holds: the step on an empty row emits the open
\* accumulation as a Block of the buffered rows and leaves both buffers
\* empty.
EmptyRowFlushes ==
    [][StepOn({"empty"})
          => /\ Len(NewBlocks) = OpenAccumulations
             /\ SourceRows(NewBlocks) = BufferedRows
             /\ current_table_rows' = <<>>
             /\ current_paragraph_lines' = <<>>]_vars

\* What the program does instead: the step on an empty row leaves
\* last_classification as it was.
EmptyRowKeepsLastClassification ==
    [][StepOn({"empty"})
          => last_classification' = last_classification]_vars

\* The row after an empty row is classified table_row although it is a
\* paragraph line when nothing is before it.
ClassifiedByRowBeforeEmptyRow ==
    /\ AfterEmptyRow
    /\ row_ptr <= Len(rows)
    /\ ClassificationOfNext = "table_row"
    /\ ClassifyRow(rows[row_ptr], None, Len(rows), sheet.min_column)
           = "paragraph_line"

(***************************************************************************)
(* Termination of the forward pass (specification SpecPass).  convert is   *)
(* one thread running a `for` loop over the list of rows: a step that can  *)
(* be taken is taken, which is weak fairness of each of its steps.         *)
(***************************************************************************)
\* Weak fairness of the loop, WF_vars(ConvertRow \/ ConvertFinish), with
\* ENABLED <<ConvertRow \/ ConvertFinish>>_vars written out: in the loop
\* there is a next iteration or the exit, and both change the state.
LoopRuns ==
    []<>(pc # "loop") \/ []<><<ConvertRow \/ ConvertFinish>>_vars

SpecPass ==
    /\ InitAgain
    /\ [][Next]_vars
    /\ WF_vars(Construct)
    /\ WF_vars(ConvertStart)
    /\ LoopRuns

\* Row n is held in the open table buffer or paragraph buffer.
InBuffer(n) == \E i \in 1..Len(BufferedRows) : BufferedRows[i] = n

\* Row n is a row of an emitted Block.
Emitted(n) ==
    \E e \in 1..Len(content_elements) :
        \E i \in 1..Len(content_elements[e].rows) :
            content_elements[e].rows[i] = n

\* The pass is over: every row was classified, once, and every row of a
\* buffer is in an emitted Block.
PassEnded ==
    /\ pc = "done"
    /\ row_ptr = Len(rows) + 1
    /\ Len(tags) = Len(rows)
    /\ \A n \in 1..Len(rows) : InBuffer(n) => Emitted(n)

\* C29: the forward pass terminates, having visited the rows one after
\* the other, each once; at its end the open accumulations are flushed,
\* so that every row appended to the table or paragraph buffer is, in the
\* end, a row of an emitted Block.
C29_PassEndsWithBuffersFlushed ==
    /\ <>[]PassEnded
    /\ \A n \in 1..AgainRows : (InBuffer(n) ~> Emitted(n))
    /\ [][row_ptr' = row_ptr + 1 /\ row_ptr <= Len(rows)]_row_ptr

\* A pass that reached the end of the rows with prose still buffered,
\* now the last Block of the output.
C29_Witness ==
    /\ pc = "done"
    /\ current_paragraph_lines # <<>>
    /\ content_elements # <<>>
    /\ content_elements[Len(content_elements)].tag = "p.section-description"
    /\ content_elements[Len(content_elements)].rows = BufferedRows

\* The same with table rows still buffered at the end of the rows.
EndedWithTableBuffered ==
    /\ pc = "done"
    /\ current_table_rows # <<>>
    /\ content_elements[Len(content_elements)].tag = "div.table-responsive"
    /\ content_elements[Len(content_elements)].rows = BufferedRows

(***************************************************************************)
(* The header rows of a table (specification SpecHeader):                  *)
(* _create_table_element on blocks of up to HeaderRows rows, so that rows  *)
(* at block index 3 are scanned.                                           *)
(***************************************************************************)
\* Rows of the worksheets of this specification.
HeaderRows == 4

\* Merge lists: no range, a range over the two cells of one row, or a
\* range over one cell and the cell below it.
HeaderRangeLists ==
    {<<>>} \cup {<<Range(r, 1, r, TableCols)>> : r \in 1..HeaderRows}
           \cup {<<Range(r, c, r + 1, c)>> :
                    r \in 1..(HeaderRows - 1), c \in 1..TableCols}

InitHeader ==
    /\ sheet \in {TableSheet(kinds, ranges) :
                     kinds \in [1..HeaderRows -> TableRowKinds],
                     ranges \in HeaderRangeLists}
    /\ images = <<>>
    /\ pc = "raw"
    /\ InitLocals
    /\ call = NoCall
    /\ ret = None

SpecHeader == InitHeader /\ [][NextTable]_vars

\* Every non-empty cell of the row is bold.
AllNonEmptyCellsBold(row) ==
    \A i \in 1..Len(GetNonEmptyCells(row, FALSE)) :
        GetNonEmptyCells(row, FALSE)[i].bold

\* Some cell of the row has rowspan or colspan above 1.
SomeCellSpans(row) ==
    \E i \in 1..Len(row.cells) :
        row.cells[i].rowspan > 1 \/ row.cells[i].colspan > 1

\* Some non-empty cell of the row has rowspan or colspan above 1.
SomeNonEmptyCellSpans(row) ==
    \E i \in 1..Len(GetNonEmptyCells(row, FALSE)) :
        \/ GetNonEmptyCells(row, FALSE)[i].rowspan > 1
        \/ GetNonEmptyCells(row, FALSE)[i].colspan > 1

\* The row at 0-based block index idx qualifies as a header row, the
\* span being looked for among all cells of the row.
Qualifies(idx, row) ==
    \/ idx < 3 /\ (AllNonEmptyCellsBold(row) \/ SomeCellSpans(row))
    \/ idx >= 3 /\ AllNonEmptyCellsBold(row)

\* The same with the span looked for among the non-empty cells.
QualifiesByNonEmptyCells(idx, row) ==
    \/ idx < 3 /\ (AllNonEmptyCellsBold(row) \/ SomeNonEmptyCellSpans(row))
    \/ idx >= 3 /\ AllNonEmptyCellsBold(row)

\* The length of the maximal prefix of qualifying rows, from index idx.
RECURSIVE QualifyingPrefix(_, _)
QualifyingPrefix(block, idx) ==
    IF idx >= Len(block) \/ ~Qualifies(idx, block[idx + 1]) THEN idx
    ELSE QualifyingPrefix(block, idx + 1)

RECURSIVE QualifyingPrefixByNonEmptyCells(_, _)
QualifyingPrefixByNonEmptyCells(block, idx) ==
    IF idx >= Len(block) \/ ~QualifiesByNonEmptyCells(idx, block[idx + 1])
    THEN idx
    ELSE QualifyingPrefixByNonEmptyCells(block, idx + 1)

\* The grid rows of the <tr>s of a section.
SectionRows(trs) == {trs[i].row_idx : i \in 1..Len(trs)}

\* The header scan found the first k rows of the block, the <tr>s of the
\* thead come from them and those of the tbody from the rows after them.
HeaderRowsAre(block, scan, k) ==
    /\ scan.header_rows_data = SubSeq(block, 1, k)
    /\ scan.end_idx = k
    /\ SectionRows(ret.thead) \subseteq {block[i].row_idx : i \in 1..k}
    /\ SectionRows(ret.tbody)
           \subseteq {block[i].row_idx : i \in (k + 1)..Len(block)}

\* C30: the header rows of a table are exactly the maximal prefix of the
\* rows of its block in which each row at block index below 3 has all
\* non-empty cells bold or some cell with rowspan or colspan above 1, and
\* each row at index 3 or more has all non-empty cells bold; every row
\* from the first disqualifying row on is a body row.
C30_HeaderRowsAreQualifyingPrefix ==
    pc = "built"
        => HeaderRowsAre(call.table_rows_data,
                         HeaderScan(call.table_rows_data, 0, <<>>, 0),
                         QualifyingPrefix(call.table_rows_data, 0))

\* What the program does: the same with the span looked for among the
\* non-empty cells of the row only.
HeaderRowsAreQualifyingPrefixByNonEmptyCells ==
    pc = "built"
        => HeaderRowsAre(call.table_rows_data,
                         HeaderScan(call.table_rows_data, 0, <<>>, 0),
                         QualifyingPrefixByNonEmptyCells(
                             call.table_rows_data, 0))

\* A block whose four rows are all header rows.
FourHeaderRows ==
    /\ pc = "built"
    /\ Len(call.table_rows_data) = 4
    /\ Len(ret.thead) = 4

\* A block whose row at index 3 has a spanning cell and is a body row,
\* after three header rows.
SpanningRowAtIndexThreeIsBody ==
    /\ pc = "built"
    /\ Len(call.table_rows_data) = 4
    /\ Len(ret.thead) = 3
    /\ SomeNonEmptyCellSpans(call.table_rows_data[4])

\* A bold row after the first disqualifying row is a body row.
BoldRowAfterBodyRowIsBody ==
    /\ pc = "built"
    /\ Len(call.table_rows_data) >= 3
    /\ Len(ret.thead) = 1
    /\ AllNonEmptyCellsBold(call.table_rows_data[3])
    /\ call.table_rows_data[3].row_idx \in SectionRows(ret.tbody)

\* A block without header rows.
NoHeaderRows ==
    /\ pc = "built"
    /\ ~ret.none
    /\ ret.thead = <<>>
    /\ ret.tbody # <<>>

\* A first row that is not bold and whose only spanning cell is empty:
\* it is a body row.
EmptySpanningCellDoesNotQualify ==
    /\ pc = "built"
    /\ ~AllNonEmptyCellsBold(call.table_rows_data[1])
    /\ SomeCellSpans(call.table_rows_data[1])
    /\ ~SomeNonEmptyCellSpans(call.table_rows_data[1])
    /\ call.table_rows_data[1].row_idx \in SectionRows(ret.tbody)

(***************************************************************************)
(* The coverage sets of _create_table_element (specification SpecTable):   *)
(* thead_processed_coords and processed_coords_in_rowspan.                 *)
(***************************************************************************)
\* The header rows and the body rows of the block of the call.
HeaderRowsOfCall ==
    HeaderScan(call.table_rows_data, 0, <<>>, 0).header_rows_data

BodyRowsOfCall ==
    SubSeq(call.table_rows_data,
           HeaderScan(call.table_rows_data, 0, <<>>, 0).end_idx + 1,
           Len(call.table_rows_data))

\* thead_processed_coords when the thead is built.
HeaderCoverage ==
    BuildSection(HeaderRowsOfCall, Len(HeaderRowsOfCall),
                 MaxColIndex(call.table_rows_data), {}, TRUE).covered

\* processed_coords_in_rowspan when the tbody is built.
BodyCoverage ==
    BuildSection(BodyRowsOfCall, Len(BodyRowsOfCall),
                 MaxColIndex(call.table_rows_data),
                 BodyStartCoverage(HeaderCoverage), FALSE).covered

\* The coordinates below the cells with a rowspan of the given rows.
CoveredByRowspansOf(section_rows) ==
    UNION {RowspanCoverage(section_rows[n].cells[i], section_rows[n].row_idx) :
              <<n, i>> \in {<<n, i>> \in (1..Len(section_rows)) \X (1..TableCols) :
                               i <= Len(section_rows[n].cells)}}

\* The coordinate is that of a rendered cell of the tbody.
RenderedInBody(coordinate) ==
    \E t \in 1..Len(ret.tbody) :
        \E i \in 1..Len(ret.tbody[t].cells) :
            ret.tbody[t].cells[i].coordinate = coordinate

\* The cells of body rows that pass the two other tests of the loop (the
\* column is within max_col_index, the cell is not a covered cell of a
\* merge) and whose coordinate only a header cell registered.
BodyCellsCoveredByHeaderOnly ==
    {coordinate \in HeaderCoverage \ CoveredByRowspansOf(BodyRowsOfCall) :
        \E n \in 1..Len(BodyRowsOfCall) :
            \E i \in 1..Len(BodyRowsOfCall[n].cells) :
                /\ BodyRowsOfCall[n].cells[i].coordinate = coordinate
                /\ BodyRowsOfCall[n].cells[i].column
                       <= MaxColIndex(call.table_rows_data)
                /\ ~IsMergeCovered(BodyRowsOfCall[n].cells[i])}

\* C31: the coverage set of the body holds only coordinates registered
\* by rowspans of cells of body rows, and no body cell is skipped because
\* a rowspan of a header row registered its coordinate.
C31_BodyCoverageIndependentOfHeader ==
    (pc = "built" /\ ~ret.none)
        => /\ BodyCoverage \subseteq CoveredByRowspansOf(BodyRowsOfCall)
           /\ \A coordinate \in BodyCellsCoveredByHeaderOnly :
                  RenderedInBody(coordinate)

\* What the program does: the coverage set of the body starts as the
\* coverage set of the header.
BodyCoverageHoldsHeaderCoverage ==
    (pc = "built" /\ ~ret.none) => HeaderCoverage \subseteq BodyCoverage

\* A header cell with a rowspan whose coordinates are in the coverage
\* set of the body.
HeaderCoordinateInBodyCoverage ==
    /\ pc = "built"
    /\ ~ret.none
    /\ HeaderCoverage # {}
    /\ BodyRowsOfCall # <<>>
    /\ ~(BodyCoverage \subseteq CoveredByRowspansOf(BodyRowsOfCall))

\* A body cell that is the top-left cell of its range and is left out
\* of the tbody for a coordinate the header registered.
BodyCellSkippedForHeaderCoordinate ==
    /\ pc = "built"
    /\ ~ret.none
    /\ \E coordinate \in BodyCellsCoveredByHeaderOnly :
           ~RenderedInBody(coordinate)

(***************************************************************************)
(* The width of a table (specification SpecWidth): _create_table_element   *)
(* on worksheets of WidthCols columns with cells that hold a number or     *)
(* nothing and at most one merge range.                                    *)
(***************************************************************************)
\* Rows and columns of the worksheets of this specification.
WidthRows == 2

WidthCols == 3

\* Merge lists: no range, or one range within a row or within a column.
WidthRangeLists ==
    {<<>>} \cup {<<Range(r, c1, r, c2)>> :
                    <<r, c1, c2>> \in {<<r, c1, c2>> \in
                        (1..WidthRows) \X (1..WidthCols) \X (1..WidthCols) :
                            c1 < c2}}
           \cup {<<Range(r, c, r + 1, c)>> :
                    r \in 1..(WidthRows - 1), c \in 1..WidthCols}

\* The worksheet in which the cells of `filled` hold a number; a
\* MergedCell has no value of its own.
WidthSheet(filled, ranges) ==
    Worksheet([r \in 1..WidthRows |->
                  [c \in 1..WidthCols |->
                      IF <<r, c>> \in filled \ MergedCellCoords(ranges)
                      THEN RawCell(TxtNum, FALSE, TRUE)
                      ELSE RawCell(NoValue, FALSE, TRUE)]],
              ranges)

InitWidth ==
    /\ sheet \in {WidthSheet(filled, ranges) :
                     filled \in SUBSET ((1..WidthRows) \X (1..WidthCols)),
                     ranges \in WidthRangeLists}
    /\ images = <<>>
    /\ pc = "raw"
    /\ InitLocals
    /\ call = NoCall
    /\ ret = None

SpecWidth == InitWidth /\ [][NextTable]_vars

\* The <th>/<td> of the table the call returned.
RenderedCellTags ==
    {ret.thead[t].cells[i] :
        <<t, i>> \in {<<t, i>> \in (1..Len(ret.thead)) \X (1..WidthCols) :
                         i <= Len(ret.thead[t].cells)}}
    \cup {ret.tbody[t].cells[i] :
        <<t, i>> \in {<<t, i>> \in (1..Len(ret.tbody)) \X (1..WidthCols) :
                         i <= Len(ret.tbody[t].cells)}}

\* The columns the occupied (non-empty) cells of the block end in:
\* cell column + colspan - 1.
OccupiedEnds ==
    {call.table_rows_data[n].cells[i].column
        + call.table_rows_data[n].cells[i].colspan - 1 :
        <<n, i>> \in {<<n, i>> \in
            (1..Len(call.table_rows_data)) \X (1..WidthCols) :
                ~CellIsEmpty(call.table_rows_data[n].cells[i])}}

\* The max occupied column of the block is m.
MaxOccupiedColumnIs(m) ==
    /\ m \in OccupiedEnds
    /\ \A e \in OccupiedEnds : e <= m

\* C32: the max occupied column of a table is the maximum, over the
\* cells of the rows of its block, of cell column + colspan - 1; no
\* rendered cell starts beyond it and the span of no rendered cell
\* extends beyond it.
C32_NoRenderedCellBeyondWidth ==
    (pc = "built" /\ ~ret.none)
        => /\ MaxOccupiedColumnIs(MaxColIndex(call.table_rows_data))
           /\ \A tag \in RenderedCellTags :
                 /\ tag.coordinate[2] <= MaxColIndex(call.table_rows_data)
                 /\ tag.coordinate[2] + tag.colspan - 1
                        <= MaxColIndex(call.table_rows_data)

\* The part of C32 that holds: max_col_index is the largest column an
\* occupied cell ends in, and no rendered cell starts beyond it.
NoRenderedCellStartsBeyondWidth ==
    (pc = "built" /\ ~ret.none)
        => /\ MaxOccupiedColumnIs(MaxColIndex(call.table_rows_data))
           /\ \A tag \in RenderedCellTags :
                 tag.coordinate[2] <= MaxColIndex(call.table_rows_data)

\* A rendered cell without content whose colspan reaches beyond
\* max_col_index.
EmptySpanningCellBeyondWidth ==
    /\ pc = "built"
    /\ ~ret.none
    /\ \E tag \in RenderedCellTags :
           /\ tag.children = <<>>
           /\ tag.coordinate[2] + tag.colspan - 1
                  > MaxColIndex(call.table_rows_data)

\* A table narrower than the sheet: the cells beyond it are dropped.
CellsBeyondWidthDropped ==
    /\ pc = "built"
    /\ ~ret.none
    /\ MaxColIndex(call.table_rows_data) < WidthCols
    /\ Len(ret.tbody) = Len(call.table_rows_data)

(***************************************************************************)
(* The two buffers of the forward pass (specification Spec).               *)
(***************************************************************************)
\* C33: at every point of the forward pass at most one accumulation is
\* open: current_table_rows and current_paragraph_lines are never both
\* non-empty.
C33_AtMostOneAccumulationOpen ==
    current_table_rows = <<>> \/ current_paragraph_lines = <<>>

\* A table row right after a paragraph line: the paragraph was emitted
\* and only the table buffer is open.
C33_Witness ==
    /\ pc = "loop"
    /\ row_ptr > 2
    /\ tags[row_ptr - 2] = "paragraph_line"
    /\ tags[row_ptr - 1] = "table_row"
    /\ current_table_rows # <<>>
    /\ current_paragraph_lines = <<>>
    /\ content_elements # <<>>
    /\ content_elements[Len(content_elements)].tag = "p.section-description"

(***************************************************************************)
(* The previous classification over the rows (specification Spec).         *)
(***************************************************************************)
\* A footer row was classified between rows i and j.
FooterBetween(i, j) ==
    \E k \in (i + 1)..(j - 1) : tags[k] = "footer"

\* C34: the previous classification handed to the classifier is that of
\* the most recent row that is not empty; so once a row is classified
\* table_row or section_header every later row is classified table_row,
\* section_header, footer or empty, never paragraph_line, until a footer
\* row occurs, however many empty rows lie in between.
C34_NoParagraphAfterTableUntilFooter ==
    /\ (pc = "loop" /\ row_ptr <= Len(rows)) =>
           last_classification = PrevAt(row_ptr)
    /\ \A i \in 1..Len(tags) :
           \A j \in (i + 1)..Len(tags) :
               (tags[i] \in {"table_row", "section_header"}
                /\ ~FooterBetween(i, j))
                   => tags[j] \in {"table_row", "section_header", "footer",
                                   "empty"}

\* A row after a table row and an empty row is classified table_row,
\* although with nothing before it it is a paragraph line.
C34_Witness ==
    /\ pc = "loop"
    /\ row_ptr > 3
    /\ tags[row_ptr - 3] = "table_row"
    /\ tags[row_ptr - 2] = "empty"
    /\ tags[row_ptr - 1] = "table_row"
    /\ ClassifyRow(rows[row_ptr - 1], None, Len(rows), sheet.min_column)
           = "paragraph_line"

\* After a footer row a paragraph line follows a table row.
ParagraphAfterFooter ==
    \E i \in 1..Len(tags) :
        \E j \in (i + 1)..Len(tags) :
            /\ tags[i] = "table_row"
            /\ tags[j] = "paragraph_line"
            /\ FooterBetween(i, j)

\* The step of C34 on the classifier alone (specification SpecClassify):
\* with the previous classification table_row or section_header no row
\* is classified paragraph_line or title.
ContinuationIsNeverParagraph ==
    (pc = "returned" /\ call.prev \in {"table_row", "section_header"})
        => ret \notin {"paragraph_line", "title"}

(***************************************************************************)
(* Rows made of covered cells (specification Spec).  A covered cell of a   *)
(* merge carries the value of the top-left cell of its range.              *)
(***************************************************************************)
\* The row has non-empty cells and each of them is a covered cell of a
\* merge, not the top-left cell of its range.
OnlyCoveredCellsNonEmpty(row) ==
    /\ \E i \in 1..Len(row.cells) : ~CellIsEmpty(row.cells[i])
    /\ \A i \in 1..Len(row.cells) :
           ~CellIsEmpty(row.cells[i])
               => (row.cells[i].is_merged /\ ~row.cells[i].is_top_left_merged)

\* C35: a row whose only non-empty cells are covered cells of merges is
\* classified empty: after its step no accumulation is open, and the row
\* is in no Block and in no buffer.
C35_CoveredOnlyRowIsEmpty ==
    \A n \in 1..Len(tags) :
        OnlyCoveredCellsNonEmpty(rows[n])
            => /\ tags[n] = "empty"
               /\ ~InBuffer(n)
               /\ ~Emitted(n)
               /\ (pc = "loop" /\ n = row_ptr - 1)
                      => (current_table_rows = <<>>
                          /\ current_paragraph_lines = <<>>)

\* The row under a table row whose first cell is merged with the cell
\* below it: its only value is the one of the covered cell, it closed
\* the table of the row above and is itself in no Block.
C35_Witness ==
    /\ pc = "loop"
    /\ row_ptr > 2
    /\ OnlyCoveredCellsNonEmpty(rows[row_ptr - 1])
    /\ tags[row_ptr - 2] = "table_row"
    /\ tags[row_ptr - 1] = "empty"
    /\ content_elements # <<>>
    /\ content_elements[Len(content_elements)].tag = "div.table-responsive"
    /\ content_elements[Len(content_elements)].rows = <<row_ptr - 2>>
    /\ current_table_rows = <<>>


(***************************************************************************)
(* Every image of the worksheet in the output (specification SpecImages).  *)
(***************************************************************************)
\* The anchor row is a row of the grid.
AnchorWithinGrid(anchor) == anchor.row \in 1..Len(rows)

\* C36: when the conversion is over, every image whose anchor row is a row
\* of the grid stands in the output exactly once, whether a title was
\* placed or not and however many anchors share a row.
C36_EveryAssetPlacedOnce ==
    pc = "done" =>
        \A n \in 1..Len(images) :
            AnchorWithinGrid(images[n])
                => Cardinality(PlacesOf(images[n].path)) = 1

\* The same for the images that are not the title image of the run, are
\* not anchored on a title row and share their row with no other anchor.
LoneInlineAssetPlacedOnce ==
    pc = "done" =>
        \A n \in 1..Len(images) :
            (/\ AnchorWithinGrid(images[n])
             /\ tags[images[n].row] # "title"
             /\ (title_image_tag # NoElement
                    => title_image_tag.src # images[n].path)
             /\ \A m \in 1..Len(images) :
                    m # n => images[m].row # images[n].row)
                => Cardinality(PlacesOf(images[n].path)) = 1

\* The title image of the run is in the output when a title was placed.
TitleImagePlacedWithTitle ==
    (pc = "done" /\ title_image_tag # NoElement /\ TitlePlaced)
        => Cardinality(PlacesOf(title_image_tag.src)) = 1

\* The only image of the worksheet is taken as title image, no title is
\* placed, and the image is nowhere in the output.
TitleImageDroppedWithoutTitle ==
    /\ pc = "done"
    /\ Len(images) = 1
    /\ title_image_tag # NoElement
    /\ ~TitlePlaced
    /\ PlacesOf(images[1].path) = {}

\* Two images share a row beyond the first 5 rows and the second is
\* nowhere in the output.
SecondAssetOfRowDropped ==
    /\ pc = "done"
    /\ Len(images) = 2
    /\ images[1].row = images[2].row
    /\ images[1].row > 5
    /\ PlacesOf(images[1].path) # {}
    /\ PlacesOf(images[2].path) = {}


(***************************************************************************)
(* The coverage sets on worksheets whose merge ranges share no cell        *)
(* (specification SpecTable).                                              *)
(***************************************************************************)
\* No two ranges of the worksheet share a cell.
NonOverlappingRanges ==
    \A a \in 1..Len(sheet.ranges) :
        \A b \in 1..Len(sheet.ranges) :
            a # b => RangeCoords(sheet.ranges[a])
                         \cap RangeCoords(sheet.ranges[b]) = {}

\* The coordinate is that of a rendered cell of the table.
RenderedInTable(coordinate) ==
    \E trs \in {ret.thead, ret.tbody} :
        \E t \in 1..Len(trs) :
            \E i \in 1..Len(trs[t].cells) :
                trs[t].cells[i].coordinate = coordinate

\* The cells of the rows of the block.
CellsOfCall ==
    {call.table_rows_data[n].cells[i] :
        <<n, i>> \in {<<n, i>> \in (1..Len(call.table_rows_data))
                                      \X (1..TableCols) :
                         i <= Len(call.table_rows_data[n].cells)}}

\* The coordinate is a covered cell, not the top-left one, of the range
\* of a rendered cell of the block that has a rowspan.
CoveredNonOwnerOfRenderedOwner(coordinate) ==
    \E owner \in CellsOfCall :
        /\ owner.is_top_left_merged
        /\ owner.rowspan > 1
        /\ RenderedInTable(owner.coordinate)
        /\ coordinate \in RangeCoords(owner.merge_range_info[2])
        /\ coordinate # owner.coordinate
        /\ coordinate \in DOMAIN merged_cells_map
        /\ merged_cells_map[coordinate] = owner.merge_range_info

\* C37: on a worksheet whose merge ranges share no cell, every coordinate
\* of the coverage set of the header and of the body is a covered cell,
\* not the top-left one, of the range of the rendered cell that
\* registered it; every cell of the block that is not a covered cell of
\* a merge and lies within max_col_index is rendered; and every row of
\* the block has a <tr> in the table.
C37_CoverageHoldsCoveredCellsOnly ==
    (pc = "built" /\ NonOverlappingRanges)
        => /\ \A coordinate \in HeaderCoverage \cup BodyCoverage :
                  CoveredNonOwnerOfRenderedOwner(coordinate)
           /\ LET max_col_index == MaxColIndex(call.table_rows_data)
              IN  \A cell \in CellsOfCall :
                      (~IsMergeCovered(cell) /\ cell.column <= max_col_index)
                          => RenderedInTable(cell.coordinate)
           /\ \A n \in 1..Len(call.table_rows_data) :
                  call.table_rows_data[n].row_idx
                      \in SectionRows(ret.thead) \cup SectionRows(ret.tbody)

\* Two ranges that share no cell, each a rowspan of a cell of a header
\* row of its own, both with their coordinate in the coverage set of the
\* header and of the body, and every row of the block rendered.
C37_Witness ==
    /\ pc = "built"
    /\ NonOverlappingRanges
    /\ Len(sheet.ranges) = 2
    /\ Cardinality(HeaderCoverage) = 2
    /\ Cardinality({coordinate[1] : coordinate \in HeaderCoverage}) = 2
    /\ HeaderCoverage \subseteq BodyCoverage
    /\ BodyRowsOfCall # <<>>
    /\ Len(ret.thead) + Len(ret.tbody) = Len(call.table_rows_data)

\* A rowspan of a cell of a body row with its coordinate in the coverage
\* set of the body.
BodyRowspanRegistered ==
    /\ pc = "built"
    /\ NonOverlappingRanges
    /\ HeaderCoverage = {}
    /\ BodyCoverage # {}
    /\ Len(ret.thead) + Len(ret.tbody) = Len(call.table_rows_data)

\* With two ranges that share a cell a coordinate of the coverage set is
\* the top-left cell of a range, and that cell is not rendered.
OwnerSkippedWithOverlappingRanges ==
    /\ pc = "built"
    /\ ~NonOverlappingRanges
    /\ \E cell \in CellsOfCall :
           /\ cell.is_top_left_merged
           /\ cell.column <= MaxColIndex(call.table_rows_data)
           /\ cell.coordinate \in HeaderCoverage \cup BodyCoverage
           /\ ~RenderedInTable(cell.coordinate)


(***************************************************************************)
(* The status of a job under the calls of update_job_status_db             *)
(* (specification SpecJob): runs of the script, for one job or another,    *)
(* end with a call each, against a table whose rows are in any status.     *)
(***************************************************************************)
\* Calls of update_job_status_db one table sees.
MaxUpdates == 3

\* What the runs pass to update_job_status_db (converter_core.py:703,
\* 706, 708).
RunUpdates ==
    {Completed} \cup {Failed(error_len) : error_len \in DiagnosticLengths}
                \cup {Failed(Min(error_len, 500)) :
                         error_len \in DiagnosticLengths}

\* One call of update_job_status_db(job_id, status, ...).
StatusUpdate ==
    /\ pc = "jobs"
    /\ Len(job_updates) < MaxUpdates
    /\ \E job_id \in 1..MaxJobs, update \in RunUpdates, executed \in BOOLEAN :
           /\ UpdateJobStatusDb(job_id, update, executed)
           /\ call' = [job_id |-> job_id, update |-> update,
                       executed |-> executed]
    /\ UNCHANGED <<sheet, merged_cells_map, rows, images, pc, row_ptr,
                   current_table_rows, current_paragraph_lines,
                   last_classification, title_image_tag, images_used,
                   content_elements, tags, ret, output_file>>

InitJob ==
    /\ sheet = Worksheet(<<>>, <<>>)
    /\ images = <<>>
    /\ pc = "jobs"
    /\ merged_cells_map = <<>>
    /\ rows = <<>>
    /\ row_ptr = 0
    /\ current_table_rows = <<>>
    /\ current_paragraph_lines = <<>>
    /\ last_classification = None
    /\ title_image_tag = NoElement
    /\ images_used = {}
    /\ content_elements = <<>>
    /\ tags = <<>>
    /\ output_file = NoFile
    /\ job_updates = <<>>
    /\ conversion_jobs \in [1..MaxJobs -> {StoredJob(status) :
                                             status \in JobStatuses}]
    /\ call = NoCall
    /\ ret = None

SpecJob == InitJob /\ [][StatusUpdate]_vars

\* The status is one of the two terminal values.
Terminal(row) == row.status \in {"completed", "failed"}

\* C38: a call of update_job_status_db changes nothing in the row of a
\* job whose status is 'completed' or 'failed': no column of the row, and
\* so a job that is 'completed' never becomes 'failed', nor a 'failed'
\* one 'completed'.
C38_TerminalStatusIsWriteOnce ==
    [][\A id \in 1..MaxJobs :
           Terminal(conversion_jobs[id])
               => conversion_jobs'[id] = conversion_jobs[id]]_vars

\* A job set to 'completed' by a call, and a later call for the same job
\* with 'failed' whose statement was executed.
C38_Witness ==
    /\ pc = "jobs"
    /\ Len(job_updates) >= 2
    /\ call.executed
    /\ call.update.status = "failed"
    /\ conversion_jobs[call.job_id].status = "completed"
    /\ conversion_jobs[call.job_id].updated_at \in 1..(Len(job_updates) - 1)

\* Every terminal row was stored so or written by one executed call, and
\* carries what that call passed.
TerminalRowFromOneCall ==
    \A id \in 1..MaxJobs :
        (Terminal(conversion_jobs[id]) /\ conversion_jobs[id].updated_at > 0)
            => /\ job_updates[conversion_jobs[id].updated_at].status
                      = conversion_jobs[id].status
               /\ job_updates[conversion_jobs[id].updated_at].error_len
                      = conversion_jobs[id].error_len

\* A call for one job leaves the row of the other job alone, and a call
\* whose statement was not executed leaves a job that is not terminal.
FailedCallLeavesJobOpen ==
    /\ pc = "jobs"
    /\ Len(job_updates) = MaxUpdates
    /\ ~call.executed
    /\ ~Terminal(conversion_jobs[call.job_id])

====
